---- MODULE Spec2Model ----
(***************************************************************************)
(* Migration planner of mygrations: the table model (definitions/table.py) *)
(* and the planner (mygrations/mygration.py).                              *)
(*                                                                         *)
(* Ordered dictionaries are sequences of records with pairwise distinct    *)
(* names.  Python's True/False position markers of add_column are the      *)
(* strings FIRST and END.  An exception is a non-empty string in a         *)
(* "raised" field or variable.                                             *)
(***************************************************************************)
EXTENDS Integers, Sequences, FiniteSets, TLC

VARIABLES
    db_to,            \* mygration.db_to: the target database (sequence of tables)
    db_from,          \* mygration.db_from: [none |-> BOOLEAN, tables |-> sequence]
    pc,               \* position inside mygration._process
    depth,            \* 0: the caller's mygration, 1: the nested mygration( db_to )
    stack,            \* frames of callers waiting for the nested mygration
    tracking_db,      \* _process: tracking_db
    tables_to_add,    \* _process: tables_to_add
    tables_to_remove, \* _process: tables_to_remove
    tables_to_update, \* _process: tables_to_update
    operations,       \* _process: operations
    fk_operations,    \* _process: fk_operations
    errors_1215,      \* _process: errors_1215
    raised,           \* the exception that left _process, "" when none
    result,           \* what the constructor stored: _errors_1215, _operations
    check,            \* _process: check, the nested mygration( db_to )
    to_indexed,       \* names of the tables of db_to whose _indexed_columns is built
    src_table,        \* table differ: the table `to` is called on
    cmp_table,        \* table differ: comparison_table
    split,            \* table differ: split_operations
    diff,             \* table differ: what `to` returned
    tbl,              \* table calls: the table the methods are called on
    indexed_columns,  \* table calls: tbl._indexed_columns
    call              \* table calls: the last call, its arguments and outcome

vars == << db_to, db_from, pc, depth, stack, tracking_db, tables_to_add,
           tables_to_remove, tables_to_update, operations, fk_operations,
           errors_1215, raised, result, check, to_indexed, src_table,
           cmp_table, split, diff, tbl, indexed_columns, call >>

planner_vars == << db_to, db_from, depth, stack, tracking_db, tables_to_add,
                   tables_to_remove, tables_to_update, operations,
                   fk_operations, errors_1215, raised, result, check,
                   to_indexed >>

differ_vars == << src_table, cmp_table, split, diff >>

table_vars == << tbl, indexed_columns, call >>

\* the value of `call` while no method of the table has been called
NoCall == [ op |-> "none" ]

----------------------------------------------------------------------------
(* Sequences as ordered dictionaries *)

RECURSIVE SelectSeqBy(_, _)
\* [x for x in s if x.name \in keep]
SelectSeqBy(s, keep) ==
    IF s = << >> THEN << >>
    ELSE (IF Head(s).name \in keep THEN << Head(s) >> ELSE << >>)
         \o SelectSeqBy(Tail(s), keep)

Keys(d) == [ i \in 1..Len(d) |-> d[i].name ]

KeySet(d) == { d[i].name : i \in 1..Len(d) }

Has(d, name) == name \in KeySet(d)

Get(d, name) == d[CHOOSE i \in 1..Len(d) : d[i].name = name]

IndexOf(s, x) == CHOOSE i \in 1..Len(s) : s[i] = x

Range(s) == { s[i] : i \in 1..Len(s) }

\* OrderedDict.pop( name, None )
Pop(d, name) == SelectSeqBy(d, KeySet(d) \ {name})

\* d[name] = value: a new key goes last, an existing key keeps its place
Put(d, value) ==
    IF Has(d, value.name)
    THEN [ i \in 1..Len(d) |-> IF d[i].name = value.name THEN value ELSE d[i] ]
    ELSE Append(d, value)

RECURSIVE Without(_, _)
\* list.remove( x ): the first occurrence goes
Without(s, x) ==
    IF s = << >> THEN << >>
    ELSE IF Head(s) = x THEN Tail(s)
    ELSE << Head(s) >> \o Without(Tail(s), x)

NoDuplicates(s) == \A i, j \in 1..Len(s) : s[i] = s[j] => i = j

----------------------------------------------------------------------------
(* Schema entities.  A column's, an index's and a constraint's rendering   *)
(* (str) is determined by its fields, so two definitions render equal iff  *)
(* the records are equal.                                                  *)

Column(name, definition) == [ name |-> name, definition |-> definition ]

Index(name, type, columns) ==
    [ name |-> name, type |-> type, columns |-> columns ]

Constraint(name, column, foreign_table, foreign_column, on_delete) ==
    [ name |-> name, column |-> column, foreign_table |-> foreign_table,
      foreign_column |-> foreign_column, on_delete |-> on_delete ]

\* table.__init__ and what a parser then stores: a table starts without
\* parsing errors (line 36)
Table(name, columns, indexes, constraints) ==
    [ name |-> name, columns |-> columns, indexes |-> indexes,
      constraints |-> constraints, errors |-> << >> ]

FIRST == "<True>"

END == "<False>"

----------------------------------------------------------------------------
(* Operations (the classes under mygrations/operations) as tagged records *)

op_add_column(column, position) ==
    [ op |-> "add_column", column |-> column, position |-> position ]

op_change_column(column) == [ op |-> "change_column", column |-> column ]

op_remove_column(column) == [ op |-> "remove_column", column |-> column ]

op_add_key(key) == [ op |-> "add_key", key |-> key ]

op_change_key(key) == [ op |-> "change_key", key |-> key ]

op_remove_key(key) == [ op |-> "remove_key", key |-> key ]

op_add_constraint(constraint) ==
    [ op |-> "add_constraint", constraint |-> constraint ]

op_change_constraint(constraint) ==
    [ op |-> "change_constraint", constraint |-> constraint ]

op_remove_constraint(constraint) ==
    [ op |-> "remove_constraint", constraint |-> constraint ]

alter_table(name, ops) ==
    [ op |-> "alter_table", table |-> name, operations |-> ops ]

create_table(t) == [ op |-> "create_table", table |-> t ]

remove_table(name) == [ op |-> "remove_table", table |-> name ]

\* alter_table.__bool__: an alter without sub-operations is falsy
alter_bool(alter) == Len(alter.operations) > 0

----------------------------------------------------------------------------
(* definitions/table.py *)

\* differences with every key of b as added ( [key for key in b] )
differences_added_all_of_b(a, b) ==
    [ added   |-> Keys(b),
      removed |-> SelectSeq(Keys(a), LAMBDA k : ~Has(b, k)),
      overlap |-> SelectSeq(Keys(a), LAMBDA k : Has(b, k)) ]

\* differences with the overlap taken from b ( [key for key in b if key in a] )
differences_overlap_of_b(a, b) ==
    [ added   |-> SelectSeq(Keys(b), LAMBDA k : ~Has(a, k)),
      removed |-> SelectSeq(Keys(a), LAMBDA k : ~Has(b, k)),
      overlap |-> SelectSeq(Keys(b), LAMBDA k : Has(a, k)) ]

\* table._differences( a, b ): ( added, removed, overlap )
differences(a, b) ==
    [ added   |-> SelectSeq(Keys(b), LAMBDA k : ~Has(a, k)),
      removed |-> SelectSeq(Keys(a), LAMBDA k : ~Has(b, k)),
      overlap |-> SelectSeq(Keys(a), LAMBDA k : Has(b, k)) ]

\* column_before without the test of line 205: for the first column
\* columns[index-1] is the last column
column_before_wrapping(t, column_name) ==
    LET columns == Keys(t.columns) IN
    IF column_name \notin Range(columns)
    THEN [ raised |-> "ValueError", value |-> END ]
    ELSE IF IndexOf(columns, column_name) = 1
    THEN [ raised |-> "", value |-> columns[Len(columns)] ]
    ELSE [ raised |-> "",
           value |-> columns[IndexOf(columns, column_name) - 1] ]

\* table.column_before( column_name )
column_before(t, column_name) ==
    LET columns == Keys(t.columns) IN
    IF column_name \notin Range(columns)
    THEN [ raised |-> "ValueError", value |-> END ]
    ELSE IF IndexOf(columns, column_name) = 1
    THEN [ raised |-> "", value |-> FIRST ]
    ELSE [ raised |-> "",
           value |-> columns[IndexOf(columns, column_name) - 1] ]

\* table.column_is_indexed( column ), with the set of indexed columns
\* computed from the indexes of the table
column_is_indexed(t, column) ==
    /\ Has(t.columns, column)
    /\ column \in { t.indexes[i].columns[1] : i \in 1..Len(t.indexes) }

\* table.create()
create(t) == create_table(t)

\* primary_operations without the test of line 264: every column of both
\* tables is changed, equal or not
primary_operations_always_change(t, comparison_table) ==
    LET c == differences(t.columns, comparison_table.columns)
        k == differences(t.indexes, comparison_table.indexes)
        changed_keys ==
            SelectSeq(k.overlap, LAMBDA n :
                Get(t.indexes, n) # Get(comparison_table.indexes, n))
    IN  [ i \in 1..Len(c.added) |->
            op_add_column(Get(comparison_table.columns, c.added[i]),
                          column_before(comparison_table, c.added[i]).value) ]
        \o [ i \in 1..Len(c.overlap) |->
            op_change_column(Get(comparison_table.columns, c.overlap[i])) ]
        \o [ i \in 1..Len(c.removed) |->
            op_remove_column(Get(t.columns, c.removed[i])) ]
        \o [ i \in 1..Len(k.added) |->
            op_add_key(Get(comparison_table.indexes, k.added[i])) ]
        \o [ i \in 1..Len(k.removed) |->
            op_remove_key(Get(t.indexes, k.removed[i])) ]
        \o [ i \in 1..Len(changed_keys) |->
            op_change_key(Get(comparison_table.indexes, changed_keys[i])) ]

\* primary_operations with the loop of line 258 running through
\* added_columns from its end
primary_operations_adds_reversed(t, comparison_table) ==
    LET c == differences(t.columns, comparison_table.columns)
        k == differences(t.indexes, comparison_table.indexes)
        changed_columns ==
            SelectSeq(c.overlap, LAMBDA n :
                Get(t.columns, n) # Get(comparison_table.columns, n))
        changed_keys ==
            SelectSeq(k.overlap, LAMBDA n :
                Get(t.indexes, n) # Get(comparison_table.indexes, n))
    IN  [ i \in 1..Len(c.added) |->
            op_add_column(
                Get(comparison_table.columns, c.added[Len(c.added) + 1 - i]),
                column_before(comparison_table,
                              c.added[Len(c.added) + 1 - i]).value) ]
        \o [ i \in 1..Len(changed_columns) |->
            op_change_column(Get(comparison_table.columns, changed_columns[i])) ]
        \o [ i \in 1..Len(c.removed) |->
            op_remove_column(Get(t.columns, c.removed[i])) ]
        \o [ i \in 1..Len(k.added) |->
            op_add_key(Get(comparison_table.indexes, k.added[i])) ]
        \o [ i \in 1..Len(k.removed) |->
            op_remove_key(Get(t.indexes, k.removed[i])) ]
        \o [ i \in 1..Len(changed_keys) |->
            op_change_key(Get(comparison_table.indexes, changed_keys[i])) ]

\* the sub-operations `to` puts into primary_alter (lines 258-279)
primary_operations(t, comparison_table) ==
    LET c == differences(t.columns, comparison_table.columns)
        k == differences(t.indexes, comparison_table.indexes)
        changed_columns ==
            SelectSeq(c.overlap, LAMBDA n :
                Get(t.columns, n) # Get(comparison_table.columns, n))
        changed_keys ==
            SelectSeq(k.overlap, LAMBDA n :
                Get(t.indexes, n) # Get(comparison_table.indexes, n))
    IN  [ i \in 1..Len(c.added) |->
            op_add_column(Get(comparison_table.columns, c.added[i]),
                          column_before(comparison_table, c.added[i]).value) ]
        \o [ i \in 1..Len(changed_columns) |->
            op_change_column(Get(comparison_table.columns, changed_columns[i])) ]
        \o [ i \in 1..Len(c.removed) |->
            op_remove_column(Get(t.columns, c.removed[i])) ]
        \o [ i \in 1..Len(k.added) |->
            op_add_key(Get(comparison_table.indexes, k.added[i])) ]
        \o [ i \in 1..Len(k.removed) |->
            op_remove_key(Get(t.indexes, k.removed[i])) ]
        \o [ i \in 1..Len(changed_keys) |->
            op_change_key(Get(comparison_table.indexes, changed_keys[i])) ]

\* the sub-operations `to` puts into removed_constraints_alter (lines 282-284)
removed_constraints_operations(t, comparison_table) ==
    LET f == differences(t.constraints, comparison_table.constraints)
    IN  [ i \in 1..Len(f.removed) |->
            op_remove_constraint(Get(t.constraints, f.removed[i])) ]

\* the sub-operations `to` puts into constraints (lines 287-293)
constraints_operations(t, comparison_table) ==
    LET f == differences(t.constraints, comparison_table.constraints)
        changed ==
            SelectSeq(f.overlap, LAMBDA n :
                Get(t.constraints, n) # Get(comparison_table.constraints, n))
    IN  [ i \in 1..Len(f.added) |->
            op_add_constraint(Get(comparison_table.constraints, f.added[i])) ]
        \o [ i \in 1..Len(changed) |->
            op_change_constraint(Get(comparison_table.constraints, changed[i])) ]

\* to_split keeping the groups without sub-operations (lines 303-308 without
\* their tests)
to_split_unfiltered(t, comparison_table) ==
    [ removed_fks  |-> alter_table(t.name,
          removed_constraints_operations(t, comparison_table)),
      kitchen_sink |-> alter_table(t.name,
          primary_operations(t, comparison_table)),
      fks          |-> alter_table(t.name,
          constraints_operations(t, comparison_table)) ]

\* to_split with the removed constraints under the key 'fks', as the
\* docstring of `to` has it ('fks' ... add/change/remove foreign keys)
to_split_removed_in_fks(t, comparison_table) ==
    LET all == [ kitchen_sink |-> alter_table(t.name,
                     primary_operations(t, comparison_table)),
                 fks          |-> alter_table(t.name,
                     constraints_operations(t, comparison_table)
                     \o removed_constraints_operations(t, comparison_table)) ]
    IN  [ key \in { x \in DOMAIN all : alter_bool(all[x]) } |-> all[key] ]

\* table.to( comparison_table, True ): a dict with up to three keys, here a
\* function whose domain is the set of keys present
to_split(t, comparison_table) ==
    LET all == [ removed_fks  |-> alter_table(t.name,
                     removed_constraints_operations(t, comparison_table)),
                 kitchen_sink |-> alter_table(t.name,
                     primary_operations(t, comparison_table)),
                 fks          |-> alter_table(t.name,
                     constraints_operations(t, comparison_table)) ]
    IN  [ key \in { x \in DOMAIN all : alter_bool(all[x]) } |-> all[key] ]

\* to_flat with the removed constraints put in before the added and changed
\* ones
to_flat_removed_first(t, comparison_table) ==
    LET primary_alter ==
            alter_table(t.name,
                primary_operations(t, comparison_table)
                \o removed_constraints_operations(t, comparison_table)
                \o constraints_operations(t, comparison_table))
    IN  IF alter_bool(primary_alter) THEN << primary_alter >> ELSE << >>

\* table.to( comparison_table, False ): a list of at most one alter_table
to_flat(t, comparison_table) ==
    LET primary_alter ==
            alter_table(t.name,
                primary_operations(t, comparison_table)
                \o constraints_operations(t, comparison_table)
                \o removed_constraints_operations(t, comparison_table))
    IN  IF alter_bool(primary_alter) THEN << primary_alter >> ELSE << >>

\* table.to( comparison_table, split_operations )
to(t, comparison_table, split_operations) ==
    IF split_operations THEN to_split(t, comparison_table)
    ELSE to_flat(t, comparison_table)

\* add_column with lines 388-391 in the other order: the new column is
\* stored before the column named by position, not after it
add_column_before_position(t, column, position) ==
    IF Has(t.columns, column.name)
    THEN [ raised |-> "ValueError", table |-> t ]
    ELSE IF position = END
    THEN [ raised |-> "",
           table |-> [ t EXCEPT !.columns = Append(t.columns, column) ] ]
    ELSE IF position = FIRST
    THEN [ raised |-> "",
           table |-> [ t EXCEPT !.columns = << column >> \o t.columns ] ]
    ELSE IF ~Has(t.columns, position)
    THEN [ raised |-> "ValueError", table |-> t ]
    ELSE LET at == IndexOf(Keys(t.columns), position)
         IN  [ raised |-> "",
               table |-> [ t EXCEPT !.columns =
                   SubSeq(t.columns, 1, at - 1) \o << column >>
                   \o SubSeq(t.columns, at, Len(t.columns)) ] ]

\* table.add_column( column, position )
add_column(t, column, position) ==
    IF Has(t.columns, column.name)
    THEN [ raised |-> "ValueError", table |-> t ]
    ELSE IF position = END
    THEN [ raised |-> "",
           table |-> [ t EXCEPT !.columns = Append(t.columns, column) ] ]
    ELSE IF position = FIRST
    THEN [ raised |-> "",
           table |-> [ t EXCEPT !.columns = << column >> \o t.columns ] ]
    ELSE IF ~Has(t.columns, position)
    THEN [ raised |-> "ValueError", table |-> t ]
    ELSE LET at == IndexOf(Keys(t.columns), position)
         IN  [ raised |-> "",
               table |-> [ t EXCEPT !.columns =
                   SubSeq(t.columns, 1, at) \o << column >>
                   \o SubSeq(t.columns, at + 1, Len(t.columns)) ] ]

\* table.remove_column( column_name )
remove_column(t, column_name) ==
    IF ~Has(t.columns, column_name)
    THEN [ raised |-> "ValueError", table |-> t ]
    ELSE [ raised |-> "",
           table |-> [ t EXCEPT !.columns = Pop(t.columns, column_name) ] ]

\* table.change_column( new_column )
change_column(t, new_column) ==
    IF ~Has(t.columns, new_column.name)
    THEN [ raised |-> "ValueError", table |-> t ]
    ELSE [ raised |-> "",
           table |-> [ t EXCEPT !.columns = Put(t.columns, new_column) ] ]

\* table.add_key( key ), the set of indexed columns not built yet
add_key(t, key) ==
    IF Has(t.indexes, key.name)
    THEN [ raised |-> "ValueError", table |-> t ]
    ELSE [ raised |-> "",
           table |-> [ t EXCEPT !.indexes = Put(t.indexes, key) ] ]

\* table.remove_key( key ), the set of indexed columns not built yet
remove_key(t, key_name) ==
    IF ~Has(t.indexes, key_name)
    THEN [ raised |-> "ValueError", table |-> t ]
    ELSE [ raised |-> "",
           table |-> [ t EXCEPT !.indexes = Pop(t.indexes, key_name) ] ]

\* table.change_key( new_key ), the set of indexed columns not built yet
change_key(t, new_key) ==
    IF ~Has(t.indexes, new_key.name)
    THEN [ raised |-> "ValueError", table |-> t ]
    ELSE [ raised |-> "",
           table |-> [ t EXCEPT !.indexes = Put(t.indexes, new_key) ] ]

\* table._indexed_columns: None (line 28) until column_is_indexed builds it
NotBuilt == [ none |-> TRUE, set |-> {} ]

\* table._indexed_columns once it is a set
Built(columns) == [ none |-> FALSE, set |-> columns ]

\* table.column_is_indexed( column ) on a table whose _indexed_columns is
\* cache: the value returned and _indexed_columns after the call
column_is_indexed_call(t, cache, column) ==
    IF ~Has(t.columns, column)
    THEN [ value |-> FALSE, indexed_columns |-> cache ]
    ELSE LET built ==
                 IF cache.none
                 THEN Built({ t.indexes[i].columns[1] : i \in 1..Len(t.indexes) })
                 ELSE cache
         IN  [ value |-> column \in built.set, indexed_columns |-> built ]

\* table.add_key( key ) on a table whose _indexed_columns is cache.  The
\* columns of a key are strings, so on a built set line 436 raises
\* AttributeError ( key.columns[0].name ) after line 433 stored the key.
add_key_call(t, cache, key) ==
    LET r == add_key(t, key) IN
    IF r.raised # ""
    THEN [ raised |-> r.raised, table |-> t, indexed_columns |-> cache ]
    ELSE IF cache.none
    THEN [ raised |-> "", table |-> r.table, indexed_columns |-> cache ]
    ELSE [ raised |-> "AttributeError", table |-> r.table,
           indexed_columns |-> cache ]

\* table.remove_key( key ) on a table whose _indexed_columns is cache.  By
\* line 452 `key` is the name of the key, a string, so on a built set
\* key.columns raises AttributeError after line 449 removed the key.
remove_key_call(t, cache, key_name) ==
    LET r == remove_key(t, key_name) IN
    IF r.raised # ""
    THEN [ raised |-> r.raised, table |-> t, indexed_columns |-> cache ]
    ELSE IF cache.none
    THEN [ raised |-> "", table |-> r.table, indexed_columns |-> cache ]
    ELSE [ raised |-> "AttributeError", table |-> r.table,
           indexed_columns |-> cache ]

\* table.change_key( new_key ) on a table whose _indexed_columns is cache.
\* On a built set line 466 raises AttributeError ( columns[0].name ) before
\* line 468 stores the new key.
change_key_call(t, cache, new_key) ==
    LET r == change_key(t, new_key) IN
    IF r.raised # ""
    THEN [ raised |-> r.raised, table |-> t, indexed_columns |-> cache ]
    ELSE IF cache.none
    THEN [ raised |-> "", table |-> r.table, indexed_columns |-> cache ]
    ELSE [ raised |-> "AttributeError", table |-> t,
           indexed_columns |-> cache ]

\* table.add_constraint( constraint )
add_constraint(t, constraint) ==
    IF Has(t.constraints, constraint.name)
    THEN [ raised |-> "ValueError", table |-> t ]
    ELSE [ raised |-> "",
           table |-> [ t EXCEPT !.constraints = Put(t.constraints, constraint) ] ]

\* table.remove_constraint( constraint )
remove_constraint(t, constraint_name) ==
    IF ~Has(t.constraints, constraint_name)
    THEN [ raised |-> "ValueError", table |-> t ]
    ELSE [ raised |-> "",
           table |-> [ t EXCEPT !.constraints =
                                  Pop(t.constraints, constraint_name) ] ]

\* table.change_constraint( new_constraint )
change_constraint(t, new_constraint) ==
    IF ~Has(t.constraints, new_constraint.name)
    THEN [ raised |-> "ValueError", table |-> t ]
    ELSE [ raised |-> "",
           table |-> [ t EXCEPT !.constraints =
                                  Put(t.constraints, new_constraint) ] ]

----------------------------------------------------------------------------
(* Operations applied to a table and to a database *)

\* operation.apply_to_table( table ) of a sub-operation of an alter_table
apply_to_table(t, o) ==
    CASE o.op = "add_column"        -> add_column(t, o.column, o.position)
      [] o.op = "change_column"     -> change_column(t, o.column)
      [] o.op = "remove_column"     -> remove_column(t, o.column.name)
      [] o.op = "add_key"           -> add_key(t, o.key)
      [] o.op = "change_key"        -> change_key(t, o.key)
      [] o.op = "remove_key"        -> remove_key(t, o.key.name)
      [] o.op = "add_constraint"    -> add_constraint(t, o.constraint)
      [] o.op = "change_constraint" -> change_constraint(t, o.constraint)
      [] o.op = "remove_constraint" -> remove_constraint(t, o.constraint.name)

RECURSIVE apply_all(_, _)
\* the sub-operations of an alter_table applied in order; the first failure
\* stops the run
apply_all(t, ops) ==
    IF ops = << >> THEN [ raised |-> "", table |-> t ]
    ELSE LET r == apply_to_table(t, Head(ops))
         IN  IF r.raised # "" THEN r ELSE apply_all(r.table, Tail(ops))

\* operation.apply_to_table( table ) on a table whose _indexed_columns is
\* cache: the operation calls the method of the table it stands for
apply_to_table_call(t, cache, o) ==
    CASE o.op = "add_key"    -> add_key_call(t, cache, o.key)
      [] o.op = "change_key" -> change_key_call(t, cache, o.key)
      [] o.op = "remove_key" -> remove_key_call(t, cache, o.key.name)
      [] OTHER ->
            LET r == apply_to_table(t, o)
            IN  [ raised |-> r.raised, table |-> r.table,
                  indexed_columns |-> cache ]

RECURSIVE apply_all_call(_, _, _)
\* alter_table.apply_to_table( table ) on a table whose _indexed_columns is
\* cache: the sub-operations are applied in order, and the first one that
\* raises ends the call with the earlier changes in place
apply_all_call(t, cache, ops) ==
    IF ops = << >>
    THEN [ raised |-> "", table |-> t, indexed_columns |-> cache ]
    ELSE LET r == apply_to_table_call(t, cache, Head(ops))
         IN  IF r.raised # "" THEN r
             ELSE apply_all_call(r.table, r.indexed_columns, Tail(ops))

\* table.apply_operation( operation ), lines 351-358
table_apply_operation(t, cache, operation) ==
    IF operation.op = "alter_table"
    THEN apply_all_call(t, cache, operation.operations)
    ELSE apply_to_table_call(t, cache, operation)

----------------------------------------------------------------------------
(* definitions/database.py: a database is the ordered dictionary of its    *)
(* tables                                                                  *)

NoDatabase == [ none |-> TRUE, tables |-> << >> ]

Database(tables) == [ none |-> FALSE, tables |-> tables ]

\* bool( db_from ): None is falsy, a database object is truthy
truthy(db) == ~db.none

\* why a foreign key cannot be added to the tables of db, "" when it can
fk_error(db, t, c) ==
    IF ~Has(db, c.foreign_table) THEN "unknown table"
    ELSE LET foreign == Get(db, c.foreign_table) IN
         IF ~Has(foreign.columns, c.foreign_column) THEN "unknown column"
         ELSE IF ~column_is_indexed(foreign, c.foreign_column)
         THEN "missing index"
         ELSE IF \/ ~Has(t.columns, c.column)
                 \/ Get(t.columns, c.column).definition
                      # Get(foreign.columns, c.foreign_column).definition
         THEN "type mismatch"
         ELSE ""

\* database.unfulfilled_fks( table ): constraint name -> { error, foreign_key }
unfulfilled_fks(db, t) ==
    LET bad == SelectSeq(t.constraints, LAMBDA c : fk_error(db, t, c) # "")
    IN  [ i \in 1..Len(bad) |->
            [ name        |-> bad[i].name,
              error       |-> << fk_error(db, t, bad[i]), t.name, bad[i].name >>,
              foreign_key |-> bad[i] ] ]

\* the tables of db that database.unfulfilled_fks( t ) calls
\* column_is_indexed on with a column they hold: the call gets to line 329
\* of table.py and stores _indexed_columns on that table when it is None
indexed_by(db, t) ==
    { t.constraints[i].foreign_table : i \in
        { j \in 1..Len(t.constraints) :
            /\ Has(db, t.constraints[j].foreign_table)
            /\ Has(Get(db, t.constraints[j].foreign_table).columns,
                   t.constraints[j].foreign_column) } }

\* database.add_table( table )
add_table(db, t) == Put(db, t)

\* database.remove_table( table )
db_remove_table(db, name) == Pop(db, name)

\* one operation of a plan applied to the tables of a database
apply_operation(db, o) ==
    CASE o.op = "create_table" ->
            IF Has(db, o.table.name) THEN [ raised |-> "ValueError", db |-> db ]
            ELSE [ raised |-> "", db |-> add_table(db, o.table) ]
      [] o.op = "remove_table" ->
            IF ~Has(db, o.table) THEN [ raised |-> "ValueError", db |-> db ]
            ELSE [ raised |-> "", db |-> db_remove_table(db, o.table) ]
      [] o.op = "alter_table" ->
            IF ~Has(db, o.table) THEN [ raised |-> "ValueError", db |-> db ]
            ELSE LET r == apply_all(Get(db, o.table), o.operations)
                 IN  [ raised |-> r.raised, db |-> Put(db, r.table) ]

RECURSIVE replay(_, _)
\* the operations of a plan applied in order
replay(db, ops) ==
    IF ops = << >> THEN [ raised |-> "", db |-> db ]
    ELSE LET r == apply_operation(db, Head(ops))
         IN  IF r.raised # "" THEN r ELSE replay(r.db, Tail(ops))

----------------------------------------------------------------------------
(* mygrations/mygration.py *)

RECURSIVE sweep_unchecked(_, _, _)
\* sweep without the question of lines 232-235: a table that tracking_db
\* cannot fulfil yet is recorded as an error at once
sweep_unchecked(to_tables, st, i) ==
    IF i > Len(st.tables_to_add) THEN st
    ELSE
    LET new_table_name  == st.tables_to_add[i]
        new_table       == Get(to_tables, new_table_name)
        bad_constraints == unfulfilled_fks(st.tracking_db, new_table)
        seen == [ st EXCEPT !.indexed_tracking =
                      @ \cup indexed_by(st.tracking_db, new_table) ]
    IN  IF bad_constraints = << >>
        THEN sweep_unchecked(to_tables,
                   [ seen EXCEPT
                       !.tables_to_add = Without(@, new_table_name),
                       !.operations    = Append(@, create(new_table)),
                       !.tracking_db   = add_table(@, new_table) ],
                   i + 1)
        ELSE sweep_unchecked(to_tables,
                   [ seen EXCEPT
                       !.tables_to_add = Without(@, new_table_name),
                       !.errors_1215   = @ \o
                           [ j \in 1..Len(bad_constraints) |->
                               bad_constraints[j].error ] ],
                   i + 1)

RECURSIVE sweep(_, _, _)
\* one run of the for loop of _process_adds (lines 210-241) from list
\* position i on.  The loop walks tables_to_add by position while the body
\* removes from that same list, so the entry that follows a removed one moves
\* into the position just visited and is not visited in this run.
sweep(to_tables, st, i) ==
    IF i > Len(st.tables_to_add) THEN st
    ELSE
    LET new_table_name  == st.tables_to_add[i]
        new_table       == Get(to_tables, new_table_name)
        bad_constraints == unfulfilled_fks(st.tracking_db, new_table)
        broken_constraints == unfulfilled_fks(to_tables, new_table)
        \* line 212 ran column_is_indexed on tables of tracking_db
        seen == [ st EXCEPT !.indexed_tracking =
                      @ \cup indexed_by(st.tracking_db, new_table) ]
        \* line 233 ran it on tables of db_to as well
        seen_to == [ seen EXCEPT !.indexed_to =
                         @ \cup indexed_by(to_tables, new_table) ]
    IN  IF bad_constraints = << >>
        THEN sweep(to_tables,
                   [ seen EXCEPT
                       !.tables_to_add = Without(@, new_table_name),
                       !.operations    = Append(@, create(new_table)),
                       !.tracking_db   = add_table(@, new_table) ],
                   i + 1)
        ELSE IF new_table_name \in st.good_tables
        THEN sweep(to_tables, seen, i + 1)
        ELSE IF broken_constraints = << >>
        THEN sweep(to_tables,
                   [ seen_to EXCEPT !.good_tables = @ \cup { new_table_name } ],
                   i + 1)
        ELSE sweep(to_tables,
                   [ seen_to EXCEPT
                       !.tables_to_add = Without(@, new_table_name),
                       !.errors_1215   = @ \o
                           [ j \in 1..Len(broken_constraints) |->
                               broken_constraints[j].error ] ],
                   i + 1)

\* add_loop with an `if` in the place of the `while` of line 208: the for
\* loop runs once
add_loop_once(to_tables, st, last_number_to_add) ==
    IF st.tables_to_add # << >> /\ Len(st.tables_to_add) # last_number_to_add
    THEN [ sweep(to_tables, st, 1) EXCEPT !.sweeps = @ + 1 ]
    ELSE st

RECURSIVE add_loop(_, _, _)
\* the while loop of _process_adds (lines 207-241)
add_loop(to_tables, st, last_number_to_add) ==
    IF st.tables_to_add # << >> /\ Len(st.tables_to_add) # last_number_to_add
    THEN add_loop(to_tables,
                  [ sweep(to_tables, st, 1) EXCEPT !.sweeps = @ + 1 ],
                  Len(st.tables_to_add))
    ELSE st

\* mygration._process_adds( tracking_db, tables_to_add ): the errors and the
\* operations returned, the two arguments as the call leaves them, the
\* number of runs of the for loop the call made, and the names of the tables
\* of tracking_db and of db_to that the call ran column_is_indexed on
process_adds(to_tables, tracking, to_add) ==
    add_loop(to_tables,
             [ tracking_db      |-> tracking,
               tables_to_add    |-> to_add,
               errors_1215      |-> << >>,
               operations       |-> << >>,
               good_tables      |-> {},
               sweeps           |-> 0,
               indexed_tracking |-> {},
               indexed_to       |-> {} ],
             0)

\* mygration._process_updates( tracking_db, tables_to_update ).  The local
\* `operations` is a dict, so operations.extend( ... ) on lines 272 and 276
\* raises AttributeError for the first table whose split diff has the key
\* 'fks' or 'kitchen_sink'; the key 'removed_fks' is never read.
process_updates(to_tables, from_tables, to_update) ==
    IF \E i \in 1..Len(to_update) :
          LET more_operations == to(Get(from_tables, to_update[i]),
                                    Get(to_tables, to_update[i]), TRUE)
          IN  \/ "fks" \in DOMAIN more_operations
              \/ "kitchen_sink" \in DOMAIN more_operations
    THEN [ raised |-> "AttributeError", fks |-> << >>, kitchen_sink |-> << >> ]
    ELSE [ raised |-> "", fks |-> << >>, kitchen_sink |-> << >> ]

\* strip_constraints without the call of remove_constraint
strip_constraints_none(t, bad_constraints) == t

RECURSIVE strip_constraints(_, _)
\* new_table_copy.remove_constraint( constraint['foreign_key'] ) for every
\* entry of bad_constraints (lines 173-175)
strip_constraints(t, bad_constraints) ==
    IF bad_constraints = << >> THEN t
    ELSE strip_constraints(
             remove_constraint(t, Head(bad_constraints).foreign_key.name).table,
             Tail(bad_constraints))

\* cycle_break_table without line 177: the alter_table is never queued
cycle_break_table_unqueued(to_tables, tracking, table_to_add, acc) ==
    LET new_table       == Get(to_tables, table_to_add)
        bad_constraints == unfulfilled_fks(tracking, new_table)
        new_table_copy  == strip_constraints(new_table, bad_constraints)
    IN  [ operations    |-> Append(acc.operations, create(new_table_copy)),
          fk_operations |-> acc.fk_operations ]

\* cycle_break_table creating the table without any of its constraints
cycle_break_table_bare(to_tables, tracking, table_to_add, acc) ==
    LET new_table       == Get(to_tables, table_to_add)
        bad_constraints == unfulfilled_fks(tracking, new_table)
        new_table_copy  == [ new_table EXCEPT !.constraints = << >> ]
        create_fks      == alter_table(table_to_add,
                               [ j \in 1..Len(bad_constraints) |->
                                   op_add_constraint(bad_constraints[j].foreign_key) ])
    IN  [ operations    |-> Append(acc.operations, create(new_table_copy)),
          fk_operations |-> Append(acc.fk_operations, create_fks) ]

\* the body of the loop of lines 168-177 for one table: the table is created
\* without the constraints tracking_db cannot fulfil and an alter_table
\* adding them is queued; tracking_db is left as it is
cycle_break_table(to_tables, tracking, table_to_add, acc) ==
    LET new_table       == Get(to_tables, table_to_add)
        bad_constraints == unfulfilled_fks(tracking, new_table)
        new_table_copy  == strip_constraints(new_table, bad_constraints)
        create_fks      == alter_table(table_to_add,
                               [ j \in 1..Len(bad_constraints) |->
                                   op_add_constraint(bad_constraints[j].foreign_key) ])
    IN  [ operations    |-> Append(acc.operations, create(new_table_copy)),
          fk_operations |-> Append(acc.fk_operations, create_fks) ]

RECURSIVE cycle_break_tracked(_, _, _, _)
\* cycle_break with tracking_db.add_table( new_table_copy ) after line 176:
\* a table handled later is compared with the tables created before it
cycle_break_tracked(to_tables, tracking, to_add, acc) ==
    IF to_add = << >> THEN acc
    ELSE cycle_break_tracked(to_tables,
             add_table(tracking,
                 strip_constraints(Get(to_tables, Head(to_add)),
                     unfulfilled_fks(tracking, Get(to_tables, Head(to_add))))),
             Tail(to_add),
             cycle_break_table(to_tables, tracking, Head(to_add), acc))

RECURSIVE cycle_break(_, _, _, _)
\* the loop of lines 168-177
cycle_break(to_tables, tracking, to_add, acc) ==
    IF to_add = << >> THEN acc
    ELSE cycle_break(to_tables, tracking, Tail(to_add),
                     cycle_break_table(to_tables, tracking, Head(to_add), acc))

\* `operations` after line 156 assigned it the value of list.extend
NONE == << [ op |-> "None" ] >>

----------------------------------------------------------------------------
(* The planner as a state machine: one action per step of _process *)

\* cur_from with line 120 handing db_from on to the nested mygration
cur_from_handed_on == db_from

\* db_from of the mygration that is running: the nested one has none
cur_from == IF depth = 1 THEN NoDatabase ELSE db_from

\* the names, among those given, of the tables tracking_db holds as the
\* table objects of db_to themselves.  tracking_db starts as a deep copy of
\* db_from (line 103); every other table in it was put there by line 219,
\* which hands over self.db_to.tables[new_table_name] (line 211) uncopied.
own_objects(names) ==
    names \ KeySet(IF truthy(cur_from) THEN cur_from.tables ELSE << >>)

\* _indexed_columns of the tables of db_to after _process_adds returned r
indexed_after(r) ==
    to_indexed \cup r.indexed_to \cup own_objects(r.indexed_tracking)

\* return [ errs, ops ] from _process, stored by the constructor (line 39)
Return(errs, ops) ==
    /\ pc' = IF depth = 0 THEN "done" ELSE "returned"
    /\ result' = IF depth = 0
                 THEN [ errors_1215 |-> errs, operations |-> ops ] ELSE result
    /\ check' = IF depth = 1
                THEN [ errors_1215 |-> errs, operations |-> ops ] ELSE check
    /\ UNCHANGED << raised, depth, stack >>

\* an exception leaves _process and every caller
Raise(exception) ==
    /\ pc' = "done"
    /\ raised' = exception
    /\ depth' = 0
    /\ stack' = << >>
    /\ UNCHANGED << result, check >>

\* line 103
Begin ==
    /\ pc = "start"
    /\ tracking_db' = IF truthy(cur_from) THEN cur_from.tables ELSE << >>
    /\ pc' = IF truthy(cur_from) THEN "check" ELSE "differences"
    /\ UNCHANGED << to_indexed,
                    db_to, db_from, depth, stack, tables_to_add,
                    tables_to_remove, tables_to_update, operations,
                    fk_operations, errors_1215, raised, result, check,
                    differ_vars, table_vars >>

\* line 120: check = mygration( self.db_to )
CallCheck ==
    /\ pc = "check"
    /\ depth = 0
    /\ depth' = 1
    /\ stack' = << [ tracking_db |-> tracking_db ] >>
    /\ tracking_db' = << >>
    /\ pc' = "start"
    /\ UNCHANGED << to_indexed,
                    db_to, db_from, tables_to_add, tables_to_remove,
                    tables_to_update, operations, fk_operations, errors_1215,
                    raised, result, check, differ_vars, table_vars >>

\* gate_return handing on the operations of the nested mygration as well
gate_return_with_operations(nested) ==
    [ errors_1215 |-> nested.errors_1215, operations |-> nested.operations ]

\* what line 122 returns when the nested mygration reports 1215 errors
gate_return(nested) ==
    [ errors_1215 |-> nested.errors_1215, operations |-> << >> ]

\* lines 120-122: the nested mygration is built, its errors end _process
ReturnCheck ==
    /\ pc = "returned"
    /\ depth = 1
    /\ depth' = 0
    /\ stack' = << >>
    /\ tracking_db' = stack[1].tracking_db
    /\ tables_to_add' = << >>
    /\ tables_to_remove' = << >>
    /\ tables_to_update' = << >>
    /\ operations' = << >>
    /\ fk_operations' = << >>
    /\ errors_1215' = << >>
    /\ IF check.errors_1215 # << >>
       THEN /\ result' = gate_return(check)
            /\ pc' = "done"
       ELSE /\ result' = result
            /\ pc' = "differences"
    /\ UNCHANGED << to_indexed,
                    db_to, db_from, raised, check, differ_vars, table_vars >>

\* Differences leaving out the tables whose errors are not empty
Differences_without_errors ==
    /\ pc = "differences"
    /\ LET db_from_tables == IF truthy(cur_from) THEN cur_from.tables ELSE << >>
           d == differences(SelectSeq(db_from_tables, LAMBDA t : t.errors = << >>),
                            SelectSeq(db_to, LAMBDA t : t.errors = << >>))
       IN  /\ tables_to_add' = d.added
           /\ tables_to_remove' = d.removed
           /\ tables_to_update' = d.overlap
    /\ pc' = "adds"
    /\ UNCHANGED << to_indexed,
                    db_to, db_from, depth, stack, tracking_db, operations,
                    fk_operations, errors_1215, raised, result, check,
                    differ_vars, table_vars >>

\* lines 125-126
Differences ==
    /\ pc = "differences"
    /\ LET db_from_tables == IF truthy(cur_from) THEN cur_from.tables ELSE << >>
           d == differences(db_from_tables, db_to)
       IN  /\ tables_to_add' = d.added
           /\ tables_to_remove' = d.removed
           /\ tables_to_update' = d.overlap
    /\ pc' = "adds"
    /\ UNCHANGED << to_indexed,
                    db_to, db_from, depth, stack, tracking_db, operations,
                    fk_operations, errors_1215, raised, result, check,
                    differ_vars, table_vars >>

\* FirstAdds without the return of lines 134-135: the plan goes on to the
\* updates with the errors of the first add pass
FirstAdds_without_return ==
    /\ pc = "adds"
    /\ LET r == process_adds(db_to, tracking_db, tables_to_add)
       IN  /\ tracking_db' = r.tracking_db
           /\ tables_to_add' = r.tables_to_add
           /\ errors_1215' = r.errors_1215
           /\ operations' = r.operations
           /\ to_indexed' = indexed_after(r)
    /\ pc' = "updates"
    /\ UNCHANGED << db_to, db_from, tables_to_remove, tables_to_update,
                    fk_operations, raised, depth, stack, result, check,
                    differ_vars, table_vars >>

\* lines 131-135
FirstAdds ==
    /\ pc = "adds"
    /\ LET r == process_adds(db_to, tracking_db, tables_to_add)
       IN  /\ tracking_db' = r.tracking_db
           /\ tables_to_add' = r.tables_to_add
           /\ errors_1215' = r.errors_1215
           /\ operations' = r.operations
           /\ to_indexed' = indexed_after(r)
           /\ IF r.errors_1215 # << >>
              THEN Return(r.errors_1215, r.operations)
              ELSE /\ pc' = "updates"
                   /\ UNCHANGED << raised, depth, stack, result, check >>
    /\ UNCHANGED << db_to, db_from, tables_to_remove, tables_to_update,
                    fk_operations, differ_vars, table_vars >>

\* lines 140-145
Updates ==
    /\ pc = "updates"
    /\ LET split_operations ==
               process_updates(db_to, cur_from.tables, tables_to_update)
       IN  IF split_operations.raised # ""
           THEN /\ Raise(split_operations.raised)
                /\ UNCHANGED << operations, fk_operations >>
           ELSE /\ operations' = operations \o split_operations.kitchen_sink
                /\ fk_operations' = split_operations.fks
                /\ pc' = "more_adds"
                /\ UNCHANGED << raised, depth, stack, result, check >>
    /\ UNCHANGED << to_indexed,
                    db_to, db_from, tracking_db, tables_to_add,
                    tables_to_remove, tables_to_update, errors_1215,
                    differ_vars, table_vars >>

\* lines 153-160.  Line 156 stores the value of list.extend, which is None.
\* With errors, line 159 appends fk_operations to `operations` (an
\* AttributeError when that is None and fk_operations is not empty), and
\* line 160 then reads the undefined name `retrun`.
SecondAdds ==
    /\ pc = "more_adds"
    /\ IF tables_to_add = << >>
       THEN /\ pc' = "cycle"
            /\ UNCHANGED << tracking_db, tables_to_add, errors_1215,
                            operations, raised, depth, stack, result, check,
                            to_indexed >>
       ELSE LET r == process_adds(db_to, tracking_db, tables_to_add)
            IN  /\ tracking_db' = r.tracking_db
                /\ to_indexed' = indexed_after(r)
                /\ tables_to_add' = r.tables_to_add
                /\ errors_1215' = r.errors_1215
                /\ operations' = IF r.operations # << >> THEN NONE
                                 ELSE IF r.errors_1215 # << >>
                                 THEN operations \o fk_operations
                                 ELSE operations
                /\ IF r.errors_1215 # << >>
                   THEN Raise(IF r.operations # << >> /\ fk_operations # << >>
                              THEN "AttributeError" ELSE "NameError")
                   ELSE /\ pc' = "cycle"
                        /\ UNCHANGED << raised, depth, stack, result, check >>
    /\ UNCHANGED << db_to, db_from, tables_to_remove, tables_to_update,
                    fk_operations, differ_vars, table_vars >>

\* lines 168-177.  When `operations` is None, line 176 raises for the
\* first table, after line 170 ran unfulfilled_fks for it.
CycleBreak ==
    /\ pc = "cycle"
    /\ IF tables_to_add # << >> /\ operations = NONE
       THEN /\ Raise("AttributeError")
            /\ to_indexed' = to_indexed \cup own_objects(
                   indexed_by(tracking_db, Get(db_to, Head(tables_to_add))))
            /\ UNCHANGED << operations, fk_operations >>
       ELSE LET r == cycle_break(db_to, tracking_db, tables_to_add,
                         [ operations    |-> operations,
                           fk_operations |-> fk_operations ])
            IN  /\ operations' = r.operations
                /\ fk_operations' = r.fk_operations
                /\ to_indexed' = to_indexed \cup own_objects(
                       UNION { indexed_by(tracking_db, Get(db_to, n)) :
                               n \in Range(tables_to_add) })
                /\ pc' = "drops"
                /\ UNCHANGED << raised, depth, stack, result, check >>
    /\ UNCHANGED << db_to, db_from, tracking_db, tables_to_add,
                    tables_to_remove, tables_to_update, errors_1215,
                    differ_vars, table_vars >>

RECURSIVE remove_tables(_, _)
\* tracking_db.remove_table( table_to_remove ) for every table (line 182)
remove_tables(db, names) ==
    IF names = << >> THEN db
    ELSE remove_tables(db_remove_table(db, Head(names)), Tail(names))

\* lines 180-182
Drops ==
    /\ pc = "drops"
    /\ IF tables_to_remove # << >> /\ operations = NONE
       THEN /\ Raise("AttributeError")
            /\ UNCHANGED << operations, tracking_db >>
       ELSE /\ operations' = operations \o
                   [ i \in 1..Len(tables_to_remove) |->
                       remove_table(tables_to_remove[i]) ]
            /\ tracking_db' = remove_tables(tracking_db, tables_to_remove)
            /\ pc' = "flush"
            /\ UNCHANGED << raised, depth, stack, result, check >>
    /\ UNCHANGED << to_indexed,
                    db_to, db_from, tables_to_add, tables_to_remove,
                    tables_to_update, fk_operations, errors_1215,
                    differ_vars, table_vars >>

\* lines 185-189
Flush ==
    /\ pc = "flush"
    /\ IF fk_operations # << >> /\ operations = NONE
       THEN /\ Raise("AttributeError")
            /\ UNCHANGED operations
       ELSE /\ operations' = operations \o fk_operations
            /\ Return(errors_1215, operations \o fk_operations)
    /\ UNCHANGED << to_indexed,
                    db_to, db_from, tracking_db, tables_to_add,
                    tables_to_remove, tables_to_update, fk_operations,
                    errors_1215, differ_vars, table_vars >>

----------------------------------------------------------------------------
(* The databases the planner is run on *)

MaxTables == 3

MaxFromTables == 2

id_column == Column("id", "INT")

subject_column == Column("subject", "INT")

primary_key == Index("PRIMARY", "PRIMARY KEY", << "id" >>)

subject_key == Index("subject", "KEY", << "subject" >>)

accounts_fk == Constraint("accounts_fk", "id", "accounts", "id", "CASCADE")

tasks_fk == Constraint("tasks_fk", "id", "tasks", "id", "CASCADE")

tasks_subject_fk ==
    Constraint("tasks_subject_fk", "id", "tasks", "subject", "CASCADE")

repeating_tasks_fk ==
    Constraint("repeating_tasks_fk", "id", "repeating_tasks", "id", "CASCADE")

PlannerTables ==
    { Table("accounts", << id_column >>, << primary_key >>, << >>) }
    \cup { Table("tasks",
                 IF subject THEN << id_column, subject_column >>
                 ELSE << id_column >>,
                 IF subject THEN << primary_key, subject_key >>
                 ELSE << primary_key >>,
                 fks) :
             subject \in BOOLEAN,
             fks \in { << accounts_fk >>, << accounts_fk, repeating_tasks_fk >> } }
    \cup { Table("repeating_tasks", << id_column >>, << primary_key >>, fks) :
             fks \in { << >>, << accounts_fk >>, << accounts_fk, tasks_fk >>,
                       << tasks_subject_fk >> } }

\* the ordered dictionaries of at most n tables
Databases(n) ==
    UNION { { d \in [ 1..k -> PlannerTables ] : NoDuplicates(Keys(d)) } :
            k \in 0..n }

Init ==
    /\ db_to \in Databases(MaxTables)
    /\ db_from \in { NoDatabase }
                   \cup { Database(d) : d \in Databases(MaxFromTables) }
    /\ pc = "start"
    /\ depth = 0
    /\ stack = << >>
    /\ tracking_db = << >>
    /\ to_indexed = {}
    /\ tables_to_add = << >>
    /\ tables_to_remove = << >>
    /\ tables_to_update = << >>
    /\ operations = << >>
    /\ fk_operations = << >>
    /\ errors_1215 = << >>
    /\ raised = ""
    /\ result = [ errors_1215 |-> << >>, operations |-> << >> ]
    /\ check = [ errors_1215 |-> << >>, operations |-> << >> ]
    /\ src_table = Table("", << >>, << >>, << >>)
    /\ cmp_table = Table("", << >>, << >>, << >>)
    /\ split = FALSE
    /\ diff = << >>
    /\ tbl = Table("", << >>, << >>, << >>)
    /\ indexed_columns = NotBuilt
    /\ call = NoCall

Next ==
    \/ Begin
    \/ CallCheck
    \/ ReturnCheck
    \/ Differences
    \/ FirstAdds
    \/ Updates
    \/ SecondAdds
    \/ CycleBreak
    \/ Drops
    \/ Flush

Spec == Init /\ [][Next]_vars

----------------------------------------------------------------------------
(* The planner run on databases whose tables may carry parsing errors *)

\* the table as the parser leaves it after a parsing error
with_errors(t) == [ t EXCEPT !.errors = << "parsing error" >> ]

ErrorTables ==
    LET tables == { Table("accounts", << id_column >>, << primary_key >>, << >>),
                    Table("tasks", << id_column >>, << primary_key >>,
                          << accounts_fk >>),
                    Table("repeating_tasks", << id_column >>,
                          << primary_key >>, << tasks_fk >>) }
    IN  tables \cup { with_errors(t) : t \in tables }

\* the ordered dictionaries of at most n of these tables
ErrorDatabases(n) ==
    UNION { { d \in [ 1..k -> ErrorTables ] : NoDuplicates(Keys(d)) } :
            k \in 0..n }

InitErrors ==
    /\ db_to \in ErrorDatabases(MaxTables)
    /\ db_from \in { NoDatabase }
                   \cup { Database(d) : d \in ErrorDatabases(MaxFromTables) }
    /\ pc = "start"
    /\ depth = 0
    /\ stack = << >>
    /\ tracking_db = << >>
    /\ to_indexed = {}
    /\ tables_to_add = << >>
    /\ tables_to_remove = << >>
    /\ tables_to_update = << >>
    /\ operations = << >>
    /\ fk_operations = << >>
    /\ errors_1215 = << >>
    /\ raised = ""
    /\ result = [ errors_1215 |-> << >>, operations |-> << >> ]
    /\ check = [ errors_1215 |-> << >>, operations |-> << >> ]
    /\ src_table = Table("", << >>, << >>, << >>)
    /\ cmp_table = Table("", << >>, << >>, << >>)
    /\ split = FALSE
    /\ diff = << >>
    /\ tbl = Table("", << >>, << >>, << >>)
    /\ indexed_columns = NotBuilt
    /\ call = NoCall

SpecErrors == InitErrors /\ [][Next]_vars

----------------------------------------------------------------------------
(* The table differ on its own: `to` is called on a pair of tables *)

MaxEntries == 2

\* the sequences of at most n members of S with pairwise distinct names
DistinctSeqs(S, n) ==
    UNION { { d \in [ 1..k -> S ] : NoDuplicates(Keys(d)) } : k \in 0..n }

\* s with x put in at position p
InsertAt(s, x, p) == SubSeq(s, 1, p - 1) \o << x >> \o SubSeq(s, p, Len(s))

DifferColumns ==
    { Column("name", "VARCHAR"), Column("name", "CHAR"),
      Column("subject", "TEXT"), Column("subject", "INT") }

DifferKeys ==
    { Index("cool_key", "KEY", << "id" >>),
      Index("cool_key", "UNIQUE KEY", << "id" >>),
      Index("other_key", "KEY", << "id" >>) }

DifferConstraints ==
    { Constraint("account_id_fk", "id", "accounts", "id", "CASCADE"),
      Constraint("account_id_fk", "id", "accounts", "id", "RESTRICT"),
      Constraint("task_id_fk", "id", "tasks", "id", "CASCADE") }

\* tables with the column id and at most MaxEntries further columns, keys
\* and constraints
DifferTables ==
    { Table("tasks", InsertAt(x[1], id_column, x[4]), x[2], x[3]) :
        x \in { y \in DistinctSeqs(DifferColumns, MaxEntries)
                      \X DistinctSeqs(DifferKeys, MaxEntries)
                      \X DistinctSeqs(DifferConstraints, MaxEntries)
                      \X (1..(MaxEntries + 1)) :
                  /\ Len(y[1]) + Len(y[2]) + Len(y[3]) <= MaxEntries
                  /\ y[4] <= Len(y[1]) + 1 } }

InitDiff ==
    /\ src_table \in DifferTables
    /\ cmp_table \in DifferTables
    /\ split = FALSE
    /\ diff = << >>
    /\ pc = "to"
    /\ db_to = << >>
    /\ db_from = NoDatabase
    /\ depth = 0
    /\ stack = << >>
    /\ tracking_db = << >>
    /\ to_indexed = {}
    /\ tables_to_add = << >>
    /\ tables_to_remove = << >>
    /\ tables_to_update = << >>
    /\ operations = << >>
    /\ fk_operations = << >>
    /\ errors_1215 = << >>
    /\ raised = ""
    /\ result = [ errors_1215 |-> << >>, operations |-> << >> ]
    /\ check = [ errors_1215 |-> << >>, operations |-> << >> ]
    /\ tbl = Table("", << >>, << >>, << >>)
    /\ indexed_columns = NotBuilt
    /\ call = NoCall

\* src_table.to( cmp_table, split_operations )
Compare ==
    /\ pc = "to"
    /\ \E split_operations \in BOOLEAN :
          /\ split' = split_operations
          /\ diff' = to(src_table, cmp_table, split_operations)
    /\ pc' = "compared"
    /\ UNCHANGED << src_table, cmp_table, planner_vars, table_vars >>

NextDiff == Compare

SpecDiff == InitDiff /\ [][NextDiff]_vars

----------------------------------------------------------------------------
(* The methods of one table called in any order *)

\* what a call hands back when the method has no return statement, or
\* raised
None == "<None>"

\* the record of a call: the method, its arguments, the table and its
\* _indexed_columns before the call, the exception raised and the value
\* returned
Called(op, arg, position, exception, value) ==
    [ op |-> op, arg |-> arg, position |-> position, before |-> tbl,
      before_indexed |-> indexed_columns, raised |-> exception,
      value |-> value ]

CallColumns ==
    { Column("id", "INT"), Column("name", "VARCHAR"), Column("name", "CHAR") }

CallPositions == { FIRST, END, "id", "name" }

CallKeys ==
    { Index("cool_key", "KEY", << "id" >>),
      Index("cool_key", "KEY", << "name" >>),
      Index("other_key", "KEY", << "id" >>) }

CallConstraints ==
    { Constraint("account_id_fk", "id", "accounts", "id", "CASCADE"),
      Constraint("account_id_fk", "id", "accounts", "id", "RESTRICT") }

InitTable ==
    /\ tbl = Table("tasks", << id_column >>, << >>, << >>)
    /\ indexed_columns = NotBuilt
    /\ call = NoCall
    /\ pc = "table"
    /\ src_table = Table("", << >>, << >>, << >>)
    /\ cmp_table = Table("", << >>, << >>, << >>)
    /\ split = FALSE
    /\ diff = << >>
    /\ db_to = << >>
    /\ db_from = NoDatabase
    /\ depth = 0
    /\ stack = << >>
    /\ tracking_db = << >>
    /\ to_indexed = {}
    /\ tables_to_add = << >>
    /\ tables_to_remove = << >>
    /\ tables_to_update = << >>
    /\ operations = << >>
    /\ fk_operations = << >>
    /\ errors_1215 = << >>
    /\ raised = ""
    /\ result = [ errors_1215 |-> << >>, operations |-> << >> ]
    /\ check = [ errors_1215 |-> << >>, operations |-> << >> ]

\* a method that leaves _indexed_columns alone was called; add_column
\* returns True (lines 376, 382, 397), the other mutators return nothing
TableCall(op, arg, position, r) ==
    /\ pc = "table"
    /\ tbl' = r.table
    /\ call' = Called(op, arg, position, r.raised,
                      IF op = "add_column" /\ r.raised = "" THEN TRUE
                      ELSE None)
    /\ UNCHANGED << indexed_columns, pc, planner_vars, differ_vars >>

\* a method that reads or writes _indexed_columns was called; add_key,
\* remove_key and change_key return nothing
KeyCall(op, arg, r) ==
    /\ pc = "table"
    /\ tbl' = r.table
    /\ indexed_columns' = r.indexed_columns
    /\ call' = Called(op, arg, END, r.raised, None)
    /\ UNCHANGED << pc, planner_vars, differ_vars >>

AddColumn ==
    \E column \in CallColumns, position \in CallPositions :
        TableCall("add_column", column, position,
                  add_column(tbl, column, position))

RemoveColumn ==
    \E column \in CallColumns :
        TableCall("remove_column", column.name, END,
                  remove_column(tbl, column.name))

ChangeColumn ==
    \E column \in CallColumns :
        TableCall("change_column", column, END, change_column(tbl, column))

AddKey ==
    \E key \in CallKeys :
        KeyCall("add_key", key, add_key_call(tbl, indexed_columns, key))

RemoveKey ==
    \E key \in CallKeys :
        KeyCall("remove_key", key.name,
                remove_key_call(tbl, indexed_columns, key.name))

ChangeKey ==
    \E key \in CallKeys :
        KeyCall("change_key", key, change_key_call(tbl, indexed_columns, key))

AddConstraint ==
    \E constraint \in CallConstraints :
        TableCall("add_constraint", constraint, END,
                  add_constraint(tbl, constraint))

RemoveConstraint ==
    \E constraint \in CallConstraints :
        TableCall("remove_constraint", constraint.name, END,
                  remove_constraint(tbl, constraint.name))

ChangeConstraint ==
    \E constraint \in CallConstraints :
        TableCall("change_constraint", constraint, END,
                  change_constraint(tbl, constraint))

\* the operations handed to apply_operation: the sub-operations a diff
\* produces, alone or up to MaxOperations of them in one alter_table
CallOperations ==
    { op_add_column(Column("name", "VARCHAR"), END),
      op_add_key(Index("cool_key", "KEY", << "id" >>)),
      op_add_constraint(
          Constraint("account_id_fk", "id", "accounts", "id", "CASCADE")) }

MaxOperations == 2

ApplyOperations ==
    CallOperations
    \cup { alter_table("tasks", ops) :
             ops \in UNION { [ 1..k -> CallOperations ] :
                             k \in 1..MaxOperations } }

\* tbl.apply_operation( operation )
ApplyOperation ==
    \E operation \in ApplyOperations :
        KeyCall("apply_operation", operation,
                table_apply_operation(tbl, indexed_columns, operation))

ColumnIsIndexed ==
    /\ pc = "table"
    /\ \E column \in CallColumns :
          LET r == column_is_indexed_call(tbl, indexed_columns, column.name)
          IN  /\ indexed_columns' = r.indexed_columns
              /\ call' = Called("column_is_indexed", column.name, END, "",
                                r.value)
    /\ UNCHANGED << tbl, pc, planner_vars, differ_vars >>

NextTable ==
    \/ AddColumn
    \/ RemoveColumn
    \/ ChangeColumn
    \/ AddKey
    \/ RemoveKey
    \/ ChangeKey
    \/ AddConstraint
    \/ RemoveConstraint
    \/ ChangeConstraint
    \/ ApplyOperation
    \/ ColumnIsIndexed

SpecTable == InitTable /\ [][NextTable]_vars

----------------------------------------------------------------------------
(* column_before called on a table *)

MaxColumns == 3

ColumnNames == { "id", "name", "subject", "created" }

InitBefore ==
    /\ tbl \in { Table("tasks", columns, << >>, << >>) :
                  columns \in DistinctSeqs(
                      { Column(n, "INT") : n \in ColumnNames }, MaxColumns) }
    /\ indexed_columns = NotBuilt
    /\ call = NoCall
    /\ pc = "table"
    /\ src_table = Table("", << >>, << >>, << >>)
    /\ cmp_table = Table("", << >>, << >>, << >>)
    /\ split = FALSE
    /\ diff = << >>
    /\ db_to = << >>
    /\ db_from = NoDatabase
    /\ depth = 0
    /\ stack = << >>
    /\ tracking_db = << >>
    /\ to_indexed = {}
    /\ tables_to_add = << >>
    /\ tables_to_remove = << >>
    /\ tables_to_update = << >>
    /\ operations = << >>
    /\ fk_operations = << >>
    /\ errors_1215 = << >>
    /\ raised = ""
    /\ result = [ errors_1215 |-> << >>, operations |-> << >> ]
    /\ check = [ errors_1215 |-> << >>, operations |-> << >> ]

\* tbl.column_before( column_name )
ColumnBefore ==
    /\ pc = "table"
    /\ \E column_name \in ColumnNames :
          LET r == column_before(tbl, column_name)
          IN  call' = Called("column_before", column_name, END, r.raised,
                             r.value)
    /\ UNCHANGED << tbl, indexed_columns, pc, planner_vars, differ_vars >>

NextBefore == ColumnBefore

SpecBefore == InitBefore /\ [][NextBefore]_vars

----------------------------------------------------------------------------
(* add_column and column_before called on a table *)

\* tbl.add_column( column, position ) on a table of at most MaxColumns
\* columns, for every column name and every position
AddColumnAt ==
    /\ Len(tbl.columns) <= MaxColumns
    /\ \E n \in ColumnNames, position \in { FIRST, END } \cup ColumnNames :
          TableCall("add_column", Column(n, "INT"), position,
                    add_column(tbl, Column(n, "INT"), position))

NextAdd ==
    \/ AddColumnAt
    \/ ColumnBefore

SpecAdd == InitBefore /\ [][NextAdd]_vars

----------------------------------------------------------------------------
(* Vocabulary of the properties *)

\* _process returned (no exception) in the caller's mygration
Returned == pc = "done" /\ raised = ""

\* the tables the plan starts from
from_tables == IF truthy(db_from) THEN db_from.tables ELSE << >>

\* every foreign key of every table of db can be added within db
AllFksValid(db) == \A i \in 1..Len(db) : unfulfilled_fks(db, db[i]) = << >>

\* same table names, and per table the same columns in the same order, the
\* same indexes and the same constraints
StructurallyEqual(a, b) ==
    /\ KeySet(a) = KeySet(b)
    /\ \A n \in KeySet(a) :
          /\ Get(a, n).columns = Get(b, n).columns
          /\ Range(Get(a, n).indexes) = Range(Get(b, n).indexes)
          /\ Range(Get(a, n).constraints) = Range(Get(b, n).constraints)

\* the positions of ops holding an operation of the kind on the table
Positions(ops, kind, name) ==
    { i \in 1..Len(ops) :
        /\ ops[i].op = kind
        /\ (IF kind = "create_table" THEN ops[i].table.name
            ELSE ops[i].table) = name }

\* the alter_table at position i of ops holds a sub-operation of one of the
\* kinds for the constraint named c
AltersConstraint(ops, i, name, kinds, c) ==
    /\ ops[i].op = "alter_table"
    /\ ops[i].table = name
    /\ \E j \in 1..Len(ops[i].operations) :
          /\ ops[i].operations[j].op \in kinds
          /\ ops[i].operations[j].constraint.name = c

\* the plan's first k operations applied to the tables the plan starts from
Prefix(k) == replay(from_tables, SubSeq(result.operations, 1, k))

\* the tables created or altered by the first k operations of the plan
Touched(k) ==
    { (IF result.operations[i].op = "create_table"
       THEN result.operations[i].table.name
       ELSE result.operations[i].table) :
        i \in { j \in 1..k : result.operations[j].op # "remove_table" } }

----------------------------------------------------------------------------
(* C1 *)

\* C1 (FK safety): when the plan is returned without 1215 errors, every
\* prefix of its operations applies to the source schema, and in the schema
\* it yields every foreign key of every table created or altered by that
\* prefix can be fulfilled.
C1_FkSafety ==
    (Returned /\ result.errors_1215 = << >>) =>
        \A k \in 0..Len(result.operations) :
            /\ Prefix(k).raised = ""
            /\ \A n \in Touched(k) :
                  Has(Prefix(k).db, n) =>
                      unfulfilled_fks(Prefix(k).db, Get(Prefix(k).db, n)) = << >>

\* a returned plan over an existing source that creates a table with a
\* foreign key and later adds a foreign key by an alter_table
C1_Witness ==
    /\ Returned
    /\ result.errors_1215 = << >>
    /\ truthy(db_from)
    /\ db_from.tables # << >>
    /\ \E i, j \in 1..Len(result.operations) :
          /\ result.operations[i].op = "create_table"
          /\ result.operations[i].table.constraints # << >>
          /\ result.operations[j].op = "alter_table"

----------------------------------------------------------------------------
(* C2 *)

\* C2 (round trip): when the plan is returned without 1215 errors, its
\* operations apply in order to db_from and yield a schema structurally
\* equal to db_to.
C2_RoundTrip ==
    (Returned /\ result.errors_1215 = << >>) =>
        /\ Prefix(Len(result.operations)).raised = ""
        /\ StructurallyEqual(Prefix(Len(result.operations)).db, db_to)

----------------------------------------------------------------------------
(* C3 *)

\* C3 (creation equivalence): for a target whose foreign keys can all be
\* fulfilled within it and no source, the plan is returned without errors
\* and its operations, replayed into an empty schema, yield a schema
\* structurally equal to the target.
C3_CreationEquivalence ==
    (pc = "done" /\ ~truthy(db_from) /\ AllFksValid(db_to)) =>
        /\ raised = ""
        /\ result.errors_1215 = << >>
        /\ replay(<< >>, result.operations).raised = ""
        /\ StructurallyEqual(replay(<< >>, result.operations).db, db_to)

\* a plan from nothing that had to strip a foreign key and restore it
C3_Witness ==
    /\ Returned
    /\ ~truthy(db_from)
    /\ AllFksValid(db_to)
    /\ \E i \in 1..Len(result.operations) :
          result.operations[i].op = "alter_table"
    /\ \E i \in 1..Len(result.operations) :
          /\ result.operations[i].op = "create_table"
          /\ result.operations[i].table
               # Get(db_to, result.operations[i].table.name)

----------------------------------------------------------------------------
(* C4 *)

\* C4 (identity): planning a schema whose foreign keys can all be fulfilled
\* within it against itself returns no operation and no error.
C4_Identity ==
    (pc = "done" /\ truthy(db_from) /\ db_from.tables = db_to
       /\ AllFksValid(db_to)) =>
        /\ raised = ""
        /\ result = [ errors_1215 |-> << >>, operations |-> << >> ]

\* the identity plan of two tables tied by a foreign key has ended
C4_Witness ==
    /\ pc = "done"
    /\ truthy(db_from)
    /\ db_from.tables = db_to
    /\ AllFksValid(db_to)
    /\ \E i \in 1..Len(db_to) : db_to[i].constraints # << >>

----------------------------------------------------------------------------
(* C5 *)

\* the 1215 errors of planning the target alone
errors_alone == process_adds(db_to, << >>, Keys(db_to)).errors_1215

\* C5 (pre-validation gate): when planning db_to alone reports 1215 errors,
\* the plan against a source emits no operation at any time and returns
\* exactly those errors with an empty operation list.
C5_PreValidationGate ==
    (truthy(db_from) /\ depth = 0 /\ errors_alone # << >>) =>
        /\ operations = << >>
        /\ pc = "done" =>
              /\ raised = ""
              /\ result = [ errors_1215 |-> errors_alone,
                            operations  |-> << >> ]

\* the gate closed on a target whose plan alone holds an error and a
\* CREATE TABLE, over a source with a table to drop
C5_Witness ==
    /\ pc = "done"
    /\ truthy(db_from)
    /\ check.errors_1215 # << >>
    /\ check.operations # << >>
    /\ \E i \in 1..Len(db_from.tables) : ~Has(db_to, db_from.tables[i].name)

----------------------------------------------------------------------------
(* C6 *)

\* the tables of db_to the plan creates with all their constraints
CreatedInFull ==
    SelectSeq(db_to, LAMBDA t :
        \E i \in 1..Len(result.operations) :
            result.operations[i] = create_table(t))

\* the constraints of t that the tables created in full can fulfil
Kept(t) ==
    SelectSeq(t.constraints, LAMBDA c : fk_error(CreatedInFull, t, c) = "")

\* a and b reference each other, and t carries no foreign key
MutualPair(a, b) ==
    /\ a.name # b.name
    /\ \E i \in 1..Len(a.constraints) : a.constraints[i].foreign_table = b.name
    /\ \E i \in 1..Len(b.constraints) : b.constraints[i].foreign_table = a.name

\* C6 (cycle break): without a source and with every foreign key of db_to
\* valid in db_to, the plan is returned without errors; every table is
\* created exactly once, with exactly the constraints that the tables
\* created in full fulfil; every other constraint is added exactly once, by
\* an alter_table on its own table that holds only ADD CONSTRAINT; every
\* alter_table follows every create_table; two mutually dependent tables and
\* one table without foreign keys give five operations: the independent
\* create, two creates, two alters.
C6_CycleBreak ==
    (pc = "done" /\ ~truthy(db_from) /\ AllFksValid(db_to)) =>
        LET ops == result.operations IN
        /\ raised = ""
        /\ result.errors_1215 = << >>
        /\ \A x \in 1..Len(db_to) :
              LET t == db_to[x] IN
              /\ Cardinality(Positions(ops, "create_table", t.name)) = 1
              /\ \A i \in Positions(ops, "create_table", t.name) :
                    ops[i].table = [ t EXCEPT !.constraints = Kept(t) ]
              /\ \A y \in 1..Len(t.constraints) :
                    Cardinality({ i \in 1..Len(ops) :
                        AltersConstraint(ops, i, t.name, { "add_constraint" },
                                         t.constraints[y].name) })
                      = IF t.constraints[y] \in Range(Kept(t)) THEN 0 ELSE 1
        /\ \A i \in 1..Len(ops) :
              ops[i].op = "alter_table" =>
                  /\ \A j \in 1..Len(ops[i].operations) :
                        /\ ops[i].operations[j].op = "add_constraint"
                        /\ ops[i].operations[j].constraint
                             \in Range(Get(db_to, ops[i].table).constraints)
                  /\ \A j \in 1..Len(ops) :
                        ops[j].op = "create_table" => j < i
        /\ \A a, b, c \in 1..Len(db_to) :
              (/\ Len(db_to) = 3
               /\ MutualPair(db_to[a], db_to[b])
               /\ db_to[c].constraints = << >>) =>
                  /\ Len(ops) = 5
                  /\ ops[1] = create_table(db_to[c])
                  /\ ops[2].op = "create_table"
                  /\ ops[3].op = "create_table"
                  /\ ops[4].op = "alter_table"
                  /\ ops[5].op = "alter_table"

\* the plan of two mutually dependent tables and an independent one, each
\* dependent table keeping its foreign key to the independent table
C6_Witness ==
    /\ Returned
    /\ ~truthy(db_from)
    /\ Len(db_to) = 3
    /\ Len(result.operations) = 5
    /\ \E a, b \in 1..3 : MutualPair(db_to[a], db_to[b])
    /\ \A i \in 2..3 :
          /\ result.operations[i].op = "create_table"
          /\ Len(result.operations[i].table.constraints) = 1

----------------------------------------------------------------------------
(* C7 *)

\* C7 (removed FKs are dropped first): when the plan against a source is
\* returned without 1215 errors, for every table in both schemas and every
\* constraint of the source table that the target table does not have, the
\* plan holds an alter_table of that table with DROP FOREIGN KEY for it,
\* placed before every alter_table adding or changing a constraint of that
\* table.
C7_RemovedFksDroppedFirst ==
    (Returned /\ truthy(db_from) /\ result.errors_1215 = << >>) =>
        LET ops == result.operations IN
        \A n \in KeySet(db_to) \cap KeySet(db_from.tables) :
            \A c \in KeySet(Get(db_from.tables, n).constraints)
                       \ KeySet(Get(db_to, n).constraints) :
                \E i \in 1..Len(ops) :
                    /\ AltersConstraint(ops, i, n, { "remove_constraint" }, c)
                    /\ \A j \in 1..Len(ops), c2 \in KeySet(Get(db_to, n).constraints) :
                          AltersConstraint(ops, j, n,
                              { "add_constraint", "change_constraint" }, c2)
                            => i < j

----------------------------------------------------------------------------
(* C8 *)

\* the position in ops is a create_table, a remove_table or an alter_table
\* holding a column or key sub-operation
NotForeignKeyWork(ops, j) ==
    \/ ops[j].op \in { "create_table", "remove_table" }
    \/ /\ ops[j].op = "alter_table"
       /\ \E k \in 1..Len(ops[j].operations) :
             ops[j].operations[k].op \in
                 { "add_column", "change_column", "remove_column",
                   "add_key", "change_key", "remove_key" }

\* the constraints the target table adds to or changes in the source table
AddedOrChanged(n) ==
    { c \in Range(Get(db_to, n).constraints) :
        c \notin Range(Get(db_from.tables, n).constraints) }

\* C8 (deferred FKs come last): a plan against a source whose target passes
\* pre-validation and adds or changes a constraint of a table of both
\* schemas is returned; every such constraint is in an alter_table of the
\* plan, and every alter_table that adds or changes a constraint follows
\* every create_table, every remove_table and every column or key
\* alter_table.
C8_DeferredFksLast ==
    (/\ pc = "done"
     /\ truthy(db_from)
     /\ check.errors_1215 = << >>
     /\ \E n \in KeySet(db_to) \cap KeySet(db_from.tables) :
           AddedOrChanged(n) # {}) =>
        LET ops == result.operations IN
        /\ raised = ""
        /\ \A n \in KeySet(db_to) \cap KeySet(db_from.tables) :
              \A c \in AddedOrChanged(n) :
                  \E i \in 1..Len(ops) :
                      AltersConstraint(ops, i, n,
                          { "add_constraint", "change_constraint" }, c.name)
        /\ \A i, j \in 1..Len(ops) :
              (/\ ops[i].op = "alter_table"
               /\ \E k \in 1..Len(ops[i].operations) :
                     ops[i].operations[k].op \in
                         { "add_constraint", "change_constraint" }
               /\ NotForeignKeyWork(ops, j)) => j < i

----------------------------------------------------------------------------
(* C9 *)

\* the alter_tables `to` returned, from its list or from its dict
Alters == { diff[k] : k \in DOMAIN diff }

\* the place of a kind of sub-operation in the order of the specification
Rank(kind) ==
    CASE kind = "add_column"        -> 1
      [] kind = "change_column"     -> 2
      [] kind = "remove_column"     -> 3
      [] kind = "add_key"           -> 4
      [] kind = "remove_key"        -> 5
      [] kind = "change_key"        -> 6
      [] kind = "add_constraint"    -> 7
      [] kind = "change_constraint" -> 8
      [] kind = "remove_constraint" -> 9

\* C9 (sub-operation order): in every alter_table `to` returns, split or
\* not, the sub-operations come in the order add column, change column,
\* drop column, add key, drop key, change key, add constraint, change
\* constraint, drop constraint; added columns follow the column order of
\* the target table, changed and dropped columns that of the source table.
C9_SubOperationOrder ==
    pc = "compared" =>
        \A alter \in Alters :
            \A i, j \in 1..Len(alter.operations) :
                i < j =>
                    LET a == alter.operations[i]
                        b == alter.operations[j]
                    IN  /\ Rank(a.op) <= Rank(b.op)
                        /\ (a.op = "add_column" /\ b.op = "add_column") =>
                              IndexOf(Keys(cmp_table.columns), a.column.name)
                                < IndexOf(Keys(cmp_table.columns), b.column.name)
                        /\ (/\ a.op = b.op
                            /\ a.op \in { "change_column", "remove_column" }) =>
                              IndexOf(Keys(src_table.columns), a.column.name)
                                < IndexOf(Keys(src_table.columns), b.column.name)

\* one alter_table with sub-operations of three kinds, among them a column,
\* a key and a constraint sub-operation
C9_Witness ==
    /\ pc = "compared"
    /\ ~split
    /\ \E alter \in Alters :
          /\ Len(alter.operations) >= 3
          /\ \E i, j, k \in 1..Len(alter.operations) :
                /\ Rank(alter.operations[i].op) <= 3
                /\ Rank(alter.operations[j].op) \in 4..6
                /\ Rank(alter.operations[k].op) >= 7

----------------------------------------------------------------------------
(* C11 *)

\* the tables the schema the plan starts from holds while _process runs
cur_from_tables == IF truthy(cur_from) THEN cur_from.tables ELSE << >>

\* tables_to_add as line 126 computed it, before any add pass
pending_at_start == differences(cur_from_tables, db_to).added

\* the position of the create_table of the table in ops, 0 when ops has none
CreatedAt(ops, name) ==
    IF Positions(ops, "create_table", name) = {} THEN 0
    ELSE CHOOSE i \in Positions(ops, "create_table", name) : TRUE

\* C11 (insertion order, snapshot iteration): every sweep of the add pass
\* visits every pending table in the insertion order of db_to, so a pending
\* table whose foreign keys the schema fulfils when the pass starts (a table
\* without foreign keys for one) is created in the first sweep, before every
\* pending table that follows it in db_to: after the first add pass its
\* create_table precedes the create_table of every such table.
C11_InsertionOrder ==
    pc = "updates" =>
        \A i, j \in 1..Len(pending_at_start) :
            LET a == pending_at_start[i]
                b == pending_at_start[j]
            IN  (/\ i < j
                 /\ unfulfilled_fks(cur_from_tables, Get(db_to, a)) = << >>
                 /\ CreatedAt(operations, b) # 0) =>
                    /\ CreatedAt(operations, a) # 0
                    /\ CreatedAt(operations, a) < CreatedAt(operations, b)

----------------------------------------------------------------------------
(* C12 *)

\* C12 (inputs are never modified): no step of the planner changes db_to or
\* db_from or the state of one of their table objects, the set of indexed
\* columns a table of db_to keeps included.
C12_InputsUnchanged ==
    [][db_to' = db_to /\ db_from' = db_from /\ to_indexed' = to_indexed]_vars

----------------------------------------------------------------------------
(* C13 *)

\* C13 (empty source equals no source): the plan against a source without
\* tables returns what the plan of db_to alone returns, which is what the
\* nested mygration( db_to ) of line 120 holds: the same errors and the same
\* operations.
C13_EmptySourceIsNoSource ==
    (pc = "done" /\ truthy(db_from) /\ db_from.tables = << >>) =>
        /\ raised = ""
        /\ result = check

----------------------------------------------------------------------------
(* C14 *)

\* no alter_table of the list is without sub-operations
NoEmptyAlter(ops) ==
    \A i \in 1..Len(ops) : ops[i].op = "alter_table" => alter_bool(ops[i])

\* the two tables hold the same columns in the same order, the same indexes
\* and the same constraints
SameStructure(a, b) ==
    /\ a.columns = b.columns
    /\ Range(a.indexes) = Range(b.indexes)
    /\ Range(a.constraints) = Range(b.constraints)

\* the tables of both the source and the target
in_both == KeySet(cur_from_tables) \cap KeySet(db_to)

\* C14 (no empty AlterTable): no list of operations the planner builds or
\* returns holds an alter_table without sub-operations; for every table of
\* both schemas neither the list nor the bundle of the table differ holds
\* one; and a table with equal columns, indexes and constraints in source
\* and target gets an empty list and an empty bundle from the differ and no
\* alter_table in the returned plan.
C14_NoEmptyAlter ==
    /\ NoEmptyAlter(operations)
    /\ NoEmptyAlter(fk_operations)
    /\ NoEmptyAlter(result.operations)
    /\ NoEmptyAlter(check.operations)
    /\ \A n \in in_both :
          LET a      == Get(cur_from_tables, n)
              b      == Get(db_to, n)
              list   == to(a, b, FALSE)
              bundle == to(a, b, TRUE)
          IN  /\ NoEmptyAlter(list)
              /\ \A k \in DOMAIN bundle : alter_bool(bundle[k])
              /\ SameStructure(a, b) =>
                    /\ list = << >>
                    /\ DOMAIN bundle = {}
                    /\ Returned =>
                          \A i \in 1..Len(result.operations) :
                              result.operations[i].op = "alter_table" =>
                                  result.operations[i].table # n

\* a returned plan over a source with an unchanged table and a table that
\* lost a foreign key
C14_Witness ==
    /\ Returned
    /\ truthy(db_from)
    /\ \E n \in in_both :
          SameStructure(Get(cur_from_tables, n), Get(db_to, n))
    /\ \E n \in in_both :
          to(Get(cur_from_tables, n), Get(db_to, n), TRUE) # << >>

----------------------------------------------------------------------------
(* C15 *)

\* the sub-operations of the list `to` returned
sub_operations == IF diff = << >> THEN << >> ELSE diff[1].operations

\* C15 (table diff round trip): the sub-operations src_table.to( cmp_table )
\* returns, applied in order to src_table, all apply, and leave it with the
\* columns of cmp_table in the same order, the same indexes and the same
\* constraints.
C15_DiffRoundTrip ==
    (pc = "compared" /\ ~split) =>
        /\ apply_all(src_table, sub_operations).raised = ""
        /\ SameStructure(apply_all(src_table, sub_operations).table, cmp_table)

----------------------------------------------------------------------------
(* C16 *)

\* the first add pass of the running mygration has ended
AfterAdds ==
    \/ pc \in { "updates", "returned" }
    \/ pc = "done" /\ ~truthy(db_from)

\* the pending tables with a foreign key that db_to itself cannot fulfil
broken_tables ==
    { n \in Range(pending_at_start) :
        unfulfilled_fks(db_to, Get(db_to, n)) # << >> }

\* C16 (genuine 1215 errors): when the add pass of a run has ended, the run
\* holds a 1215 error exactly when a table it had to add has a foreign key
\* unfulfilled against db_to; every such table has left the pending list and
\* has no create_table; every error names such a table, so a table that is
\* only blocked yields none.  The returned plan reports an error exactly
\* when a table of db_to has a foreign key unfulfilled against db_to.
C16_GenuineErrors ==
    /\ AfterAdds =>
          /\ errors_1215 # << >> <=> broken_tables # {}
          /\ \A n \in broken_tables :
                /\ n \notin Range(tables_to_add)
                /\ CreatedAt(operations, n) = 0
          /\ \A i \in 1..Len(errors_1215) : errors_1215[i][2] \in broken_tables
    /\ Returned =>
          /\ result.errors_1215 # << >> <=> ~AllFksValid(db_to)
          /\ \A i \in 1..Len(result.errors_1215) :
                unfulfilled_fks(db_to, Get(db_to, result.errors_1215[i][2]))
                    # << >>
          /\ \A n \in KeySet(db_to) :
                unfulfilled_fks(db_to, Get(db_to, n)) # << >> =>
                    CreatedAt(result.operations, n) = 0

\* a run that recorded an error for one table, created another and left a
\* third, whose foreign keys db_to fulfils, pending
C16_Witness ==
    /\ AfterAdds
    /\ errors_1215 # << >>
    /\ operations # << >>
    /\ \E i \in 1..Len(tables_to_add) :
          unfulfilled_fks(db_to, Get(db_to, tables_to_add[i])) = << >>

----------------------------------------------------------------------------
(* C17 *)

AddCalls == { "add_column", "add_key", "add_constraint" }

RemoveCalls == { "remove_column", "remove_key", "remove_constraint" }

ChangeCalls == { "change_column", "change_key", "change_constraint" }

\* the columns, the indexes or the constraints of t, whichever the last
\* call is about
Entries(t) ==
    IF call.op \in { "add_column", "remove_column", "change_column" }
    THEN t.columns
    ELSE IF call.op \in { "add_key", "remove_key", "change_key" }
    THEN t.indexes
    ELSE t.constraints

\* the name of the entry the last call is about
CalledName == IF call.op \in RemoveCalls THEN call.arg ELSE call.arg.name

\* the last call was add_column with a position the table does not have
MissingPosition ==
    /\ call.op = "add_column"
    /\ call.position \notin { FIRST, END } \cup KeySet(call.before.columns)

\* the table is what the successful last call has to leave behind
Performed ==
    LET old == Entries(call.before)
        new == Entries(tbl)
        n   == CalledName
    IN  /\ call.op \in AddCalls =>
              /\ Has(new, n)
              /\ Get(new, n) = call.arg
              /\ Pop(new, n) = old
        /\ call.op = "add_column" =>
              IndexOf(Keys(new), n) =
                  IF call.position = END THEN Len(new)
                  ELSE IF call.position = FIRST THEN 1
                  ELSE IndexOf(Keys(new), call.position) + 1
        /\ call.op \in RemoveCalls => new = Pop(old, n)
        /\ call.op \in ChangeCalls =>
              /\ Keys(new) = Keys(old)
              /\ Get(new, n) = call.arg
              /\ Pop(new, n) = Pop(old, n)
        /\ \A other \in { tbl.columns, tbl.indexes, tbl.constraints } \ { new } :
              other \in { call.before.columns, call.before.indexes,
                          call.before.constraints }

\* C17 (mutation preconditions): add_column (with a position the table
\* has), add_key and add_constraint raise ValueError exactly when the table
\* holds an entry of that name; remove_ and change_ column, key and
\* constraint raise ValueError exactly when it holds none; a call that
\* raises leaves the table as it was, every other call performs its
\* mutation; and the names of the columns, of the indexes and of the
\* constraints stay pairwise distinct.
C17_MutationPreconditions ==
    /\ NoDuplicates(Keys(tbl.columns))
    /\ NoDuplicates(Keys(tbl.indexes))
    /\ NoDuplicates(Keys(tbl.constraints))
    /\ (call.op \in AddCalls \cup RemoveCalls \cup ChangeCalls
          /\ ~MissingPosition) =>
          LET exists == Has(Entries(call.before), CalledName)
          IN  /\ call.raised \in { "", "ValueError" }
              /\ call.op \in AddCalls => (call.raised # "" <=> exists)
              /\ call.op \in RemoveCalls \cup ChangeCalls =>
                    (call.raised # "" <=> ~exists)
              /\ call.raised # "" => tbl = call.before
              /\ call.raised = "" => Performed

----------------------------------------------------------------------------
(* C18 *)

\* c is a column of t and the first column of an index of t
IsIndexed(t, c) ==
    /\ Has(t.columns, c)
    /\ \E i \in 1..Len(t.indexes) : t.indexes[i].columns[1] = c

\* the last call was add_key for a new key, or remove_key or change_key for
\* a key of the table, on a table whose set of indexed columns was built
KeyCallOnBuiltSet ==
    /\ call.op \in { "add_key", "remove_key", "change_key" }
    /\ ~call.before_indexed.none
    /\ call.op = "add_key" <=> ~Has(call.before.indexes, CalledName)

\* C18 (column_is_indexed stays exact): after any sequence of add_key,
\* remove_key, change_key and column_is_indexed calls, column_is_indexed( c )
\* returns true exactly when c is a column of the table and the first
\* column of one of its indexes; and add_key of a new key, remove_key and
\* change_key of an existing key raise nothing when the set of indexed
\* columns is already built.
C18_IndexedExact ==
    /\ call.op = "column_is_indexed" => call.value = IsIndexed(tbl, call.arg)
    /\ KeyCallOnBuiltSet => call.raised = ""

----------------------------------------------------------------------------
(* C19 *)

\* C19 (column_before): column_before( c ) raises ValueError when c is not
\* a column of the table; otherwise it raises nothing and returns the
\* marker FIRST when c is the first column and else the name of the column
\* right before c; the table is the same after the call.
C19_ColumnBefore ==
    call.op = "column_before" =>
        LET columns == Keys(tbl.columns) IN
        /\ tbl = call.before
        /\ IF call.arg \notin Range(columns)
           THEN call.raised = "ValueError"
           ELSE /\ call.raised = ""
                /\ \E i \in 1..Len(columns) :
                      /\ columns[i] = call.arg
                      /\ call.value = IF i = 1 THEN FIRST ELSE columns[i - 1]

\* column_before was called for the first, for the last of three and for a
\* missing column
C19_Witness ==
    /\ call.op = "column_before"
    /\ Len(tbl.columns) = 3
    /\ call.arg = tbl.columns[3].name
    /\ call.value = tbl.columns[2].name
    /\ column_before(tbl, tbl.columns[1].name).value = FIRST
    /\ \E n \in ColumnNames : column_before(tbl, n).raised = "ValueError"

----------------------------------------------------------------------------
(* C20 *)

\* the place of a position of _process in the order of its steps
Step(position) ==
    CASE position = "start"       -> 0
      [] position = "check"       -> 1
      [] position = "differences" -> 2
      [] position = "adds"        -> 3
      [] position = "updates"     -> 4
      [] position = "more_adds"   -> 5
      [] position = "cycle"       -> 6
      [] position = "drops"       -> 7
      [] position = "flush"       -> 8
      [] position = "returned"    -> 9
      [] position = "done"        -> 10

\* the number of steps the plan can still take, at most
StepsLeft ==
    IF depth = 1 THEN 20 - Step(pc)
    ELSE IF pc \in { "start", "check" } THEN 22 - Step(pc)
    ELSE 10 - Step(pc)

\* the plan stands at a position from which one of its steps goes on: the
\* call of the nested mygration is made by the caller's and its return is
\* taken by the nested one
CanStep ==
    /\ pc \in { "start", "check", "returned", "differences", "adds",
                "updates", "more_adds", "cycle", "drops", "flush" }
    /\ pc = "check" => depth = 0
    /\ pc = "returned" => depth = 1

\* the call of _process_adds that the planner is about to make
next_adds == process_adds(db_to, tracking_db, tables_to_add)

\* C20 (termination): every step of a plan brings it closer to its end, and
\* a plan that has not ended can take a step; an add pass makes at most N + 1
\* sweeps over N pending tables and ends with an empty pending list or after
\* a sweep that removed nothing; the pre-validation run starts no further
\* run, so at most one nested run is ever open.
C20_Termination ==
    /\ [](/\ depth \in { 0, 1 }
          /\ Len(stack) = depth
          /\ depth = 1 => pc # "check"
          /\ pc = "done" \/ CanStep
          /\ pc \in { "adds", "more_adds" } =>
                /\ next_adds.sweeps <= Len(tables_to_add) + 1
                /\ \/ next_adds.tables_to_add = << >>
                   \/ sweep(db_to, next_adds, 1) = next_adds)
    /\ [][StepsLeft' < StepsLeft]_vars

\* a plan against a source has ended whose pre-validation run needed three
\* sweeps and left a cycle pending
C20_Witness ==
    /\ pc = "done"
    /\ truthy(db_from)
    /\ check.operations # << >>
    /\ process_adds(db_to, << >>, Keys(db_to)).sweeps >= 3
    /\ process_adds(db_to, << >>, Keys(db_to)).tables_to_add # << >>
----------------------------------------------------------------------------
(* C21 *)

\* the tables of the schema after the first k operations of ops were applied
\* to the tables of db
After(db, ops, k) == replay(db, SubSeq(ops, 1, k))

\* the table cannot be created in the schema yet, and db_to fulfils all its
\* foreign keys
Blocked(db, name) ==
    /\ unfulfilled_fks(db, Get(db_to, name)) # << >>
    /\ unfulfilled_fks(db_to, Get(db_to, name)) = << >>

\* C21 (fixed point of the add pass): the add pass the planner is about to
\* run emits only create_tables, each for a pending table as db_to holds it
\* and with no foreign key unfulfilled in the tracking schema as the creates
\* before it left it; the tracking schema it returns holds exactly these
\* tables in addition; and every table it leaves pending has a foreign key
\* unfulfilled against that tracking schema and none against db_to.  After
\* the first add pass the planner's own tracking_db, operations and
\* tables_to_add are in that state.
C21_FixedPoint ==
    /\ pc \in { "adds", "more_adds" } =>
          LET r == next_adds IN
          /\ \A k \in 1..Len(r.operations) :
                LET o == r.operations[k] IN
                /\ o.op = "create_table"
                /\ o.table.name \in Range(tables_to_add)
                /\ o.table = Get(db_to, o.table.name)
                /\ After(tracking_db, r.operations, k - 1).raised = ""
                /\ unfulfilled_fks(After(tracking_db, r.operations, k - 1).db,
                                   o.table) = << >>
          /\ After(tracking_db, r.operations, Len(r.operations)).raised = ""
          /\ After(tracking_db, r.operations, Len(r.operations)).db
                = r.tracking_db
          /\ \A n \in Range(r.tables_to_add) : Blocked(r.tracking_db, n)
    /\ pc = "updates" =>
          /\ After(cur_from_tables, operations, Len(operations)).raised = ""
          /\ After(cur_from_tables, operations, Len(operations)).db
                = tracking_db
          /\ \A n \in Range(tables_to_add) : Blocked(tracking_db, n)
          /\ \A n \in Range(pending_at_start) :
                n \in Range(tables_to_add) <=> CreatedAt(operations, n) = 0

\* the first add pass ended after a sweep that removed nothing, having
\* created the last pending table in the sweep before and left two pending
C21_Witness ==
    /\ pc = "updates"
    /\ Len(tables_to_add) = 2
    /\ Len(pending_at_start) = 3
    /\ CreatedAt(operations, pending_at_start[3]) = 1
    /\ process_adds(db_to, cur_from_tables, pending_at_start).sweeps = 2
----------------------------------------------------------------------------
(* C22 *)

\* the constraint c of the new table n points at a table of both schemas
\* that fulfils it in db_to and not in db_from: a column or an index is
\* missing that the table gains in this plan
UnlockedByUpdate(n, c) ==
    /\ ~Has(db_from.tables, n)
    /\ c.foreign_table \in KeySet(db_from.tables) \cap KeySet(db_to)
    /\ fk_error(db_from.tables, Get(db_to, n), c) # ""
    /\ fk_error(db_to, Get(db_to, n), c) = ""

\* the alter_table at position i of ops adds a column or a key to the table
AddsColumnOrKey(ops, i, name) ==
    /\ ops[i].op = "alter_table"
    /\ ops[i].table = name
    /\ \E k \in 1..Len(ops[i].operations) :
          ops[i].operations[k].op \in { "add_column", "add_key" }

\* C22 (second add pass after updates): when every foreign key of db_to is
\* valid in db_to and a new table has a foreign key that an existing table
\* fulfils only after its update, the plan is returned without 1215 errors,
\* the new table is created once with all its constraints, and its
\* create_table follows an alter_table that adds a column or a key to the
\* referenced table.
C22_SecondAddPass ==
    (/\ pc = "done"
     /\ truthy(db_from)
     /\ AllFksValid(db_to)) =>
        \A x \in 1..Len(db_to) :
            \A y \in 1..Len(db_to[x].constraints) :
                LET n   == db_to[x].name
                    c   == db_to[x].constraints[y]
                    ops == result.operations
                IN  UnlockedByUpdate(n, c) =>
                        /\ raised = ""
                        /\ result.errors_1215 = << >>
                        /\ Cardinality(Positions(ops, "create_table", n)) = 1
                        /\ \A i \in Positions(ops, "create_table", n) :
                              /\ ops[i].table = db_to[x]
                              /\ \E j \in 1..(i - 1) :
                                    AddsColumnOrKey(ops, j, c.foreign_table)
----------------------------------------------------------------------------
(* C23 *)

\* the table of db_to with the constraints the schema fulfils, in its order
Fulfilled(db, name) ==
    [ Get(db_to, name) EXCEPT !.constraints =
        SelectSeq(@, LAMBDA c : fk_error(db, Get(db_to, name), c) = "") ]

\* the tables the cycle-break phase has created before it handles the table
\* at position i of tables_to_add, each as it was created
CreatedBefore(i) ==
    [ j \in 1..(i - 1) |->
        operations[CreatedAt(operations, tables_to_add[j])].table ]

\* C23 as claimed (tracking after cycle break): when the cycle-break phase
\* has ended, every table of db_to without a broken foreign key is in
\* tracking_db, and every table the phase created kept the constraints that
\* tracking_db together with the tables created before it in the phase
\* fulfils.
C23_TrackedCycleBreak ==
    pc = "drops" =>
        /\ \A n \in KeySet(db_to) :
              unfulfilled_fks(db_to, Get(db_to, n)) = << >> =>
                  Has(tracking_db, n)
        /\ \A i \in 1..Len(tables_to_add) :
              /\ CreatedAt(operations, tables_to_add[i]) # 0
              /\ operations[CreatedAt(operations, tables_to_add[i])].table
                    = Fulfilled(tracking_db \o CreatedBefore(i),
                                tables_to_add[i])

\* C23 as the code has it (cycle break leaves tracking alone): the
\* cycle-break phase does not change tracking_db; when it has ended,
\* tracking_db holds the tables of the source and the tables of db_to
\* except those the phase created, every table the phase handled has one
\* create_table, with exactly the constraints that this tracking_db
\* fulfils, and an alter_table among the deferred operations adds each of
\* its other constraints, those pointing at a table created earlier in the
\* phase included.
C23_CycleBreakLeavesTracking ==
    pc = "drops" =>
        /\ KeySet(tracking_db)
              = (KeySet(cur_from_tables) \cup KeySet(db_to))
                  \ Range(tables_to_add)
        /\ \A i \in 1..Len(tables_to_add) :
              LET n == tables_to_add[i] IN
              /\ Cardinality(Positions(operations, "create_table", n)) = 1
              /\ operations[CreatedAt(operations, n)].table
                    = Fulfilled(tracking_db, n)
              /\ \A c \in Range(Get(db_to, n).constraints)
                           \ Range(Fulfilled(tracking_db, n).constraints) :
                    \E k \in 1..Len(fk_operations) :
                        AltersConstraint(fk_operations, k, n,
                                         { "add_constraint" }, c.name)

\* the cycle-break phase ended for two tables that point at each other;
\* the second was created without its foreign key to the first and with
\* its foreign key to a table of tracking_db
C23_Witness ==
    /\ pc = "drops"
    /\ Len(tables_to_add) = 2
    /\ \E c \in Range(Get(db_to, tables_to_add[2]).constraints) :
          /\ c.foreign_table = tables_to_add[1]
          /\ c \notin Range(operations[CreatedAt(operations,
                                 tables_to_add[2])].table.constraints)
    /\ operations[CreatedAt(operations, tables_to_add[2])].table.constraints
          # << >>
----------------------------------------------------------------------------
(* C24 *)

\* the create_tables of the first add pass of the plan
first_pass ==
    process_adds(db_to, from_tables,
                 differences(from_tables, db_to).added).operations

\* the tables of the source that db_to does not have, in the source's order
dropped == differences(from_tables, db_to).removed

\* position j of ops is an alter_table with a column or key sub-operation
ColumnOrKeyAlter(ops, j) == ops[j].op = "alter_table" /\ NotForeignKeyWork(ops, j)

\* position j of ops is an alter_table that adds or changes a constraint
ForeignKeyAlter(ops, j) ==
    /\ ops[j].op = "alter_table"
    /\ \E k \in 1..Len(ops[j].operations) :
          ops[j].operations[k].op \in { "add_constraint", "change_constraint" }

\* the order of the phases in a stream of operations
PhaseOrdered(ops) ==
    /\ \A i, j \in 1..Len(ops) :
          /\ (ops[i] \in Range(first_pass) /\ ColumnOrKeyAlter(ops, j)) => i < j
          /\ ops[i].op = "remove_table" =>
                /\ (ops[j].op = "create_table" \/ ColumnOrKeyAlter(ops, j))
                      => j < i
                /\ ForeignKeyAlter(ops, j) => i < j
    /\ SelectSeq(ops, LAMBDA o : o.op = "remove_table")
          = [ i \in 1..Len(dropped) |-> remove_table(dropped[i]) ]

\* the tables of both schemas whose columns or keys differ
updated_tables ==
    { n \in KeySet(from_tables) \cap KeySet(db_to) :
        primary_operations(Get(from_tables, n), Get(db_to, n)) # << >> }

\* C24 (phase order of the stream): every target that passes pre-validation
\* gets a plan, also when a table of both schemas gains, loses or changes a
\* column or a key; in the plan every create_table of the first add pass
\* precedes every update alter_table; every remove_table follows every
\* create_table and every column or key alter_table and precedes every
\* alter_table adding or changing a constraint; the remove_tables are those
\* of the source tables missing in db_to, one each, in the order of the
\* source; every table with differing columns or keys has its update
\* alter_table in the stream; and the dropped tables have left tracking_db
\* when the drop phase has ended.
C24_PhaseOrder ==
    /\ (pc = "done" /\ (truthy(db_from) => check.errors_1215 = << >>)) =>
          /\ raised = ""
          /\ PhaseOrdered(result.operations)
          /\ \A n \in updated_tables :
                \E j \in 1..Len(result.operations) :
                    /\ ColumnOrKeyAlter(result.operations, j)
                    /\ result.operations[j].table = n
    /\ pc = "flush" =>
          \A n \in Range(tables_to_remove) : ~Has(tracking_db, n)
----------------------------------------------------------------------------
(* C25 *)

RECURSIVE Creatable(_)
\* the tables of db_to that can be created in k rounds from nothing, each
\* round creating the tables whose foreign keys the tables of the rounds
\* before fulfil
Creatable(k) ==
    IF k = 0 THEN {}
    ELSE { n \in KeySet(db_to) :
             unfulfilled_fks(SelectSeqBy(db_to, Creatable(k - 1)),
                             Get(db_to, n)) = << >> }

\* the 1215 errors of the foreign keys of db_to that db_to cannot fulfil
genuine_errors ==
    UNION { { unfulfilled_fks(db_to, db_to[i])[j].error :
                j \in 1..Len(unfulfilled_fks(db_to, db_to[i])) } :
            i \in 1..Len(db_to) }

\* C25 (early return on errors without a source): a run without a source
\* whose target has a foreign key that db_to cannot fulfil never reaches the
\* updates, the cycle break, the drops or the flush; called by the user it
\* returns, without an exception, exactly the genuine errors, each once,
\* and a stream that holds nothing but one create_table, with all its
\* constraints, for every table that can be created in foreign-key order
\* from nothing, each table following the tables it points at.
C25_EarlyReturn ==
    (~truthy(cur_from) /\ ~AllFksValid(db_to)) =>
        /\ pc \in { "start", "differences", "adds", "returned", "done" }
        /\ pc \in { "start", "differences", "adds" } => fk_operations = << >>
        /\ pc = "done" =>
              LET ops == result.operations IN
              /\ raised = ""
              /\ result.errors_1215 # << >>
              /\ Range(result.errors_1215) = genuine_errors
              /\ Len(result.errors_1215) = Cardinality(genuine_errors)
              /\ \A i \in 1..Len(ops) :
                    /\ ops[i].op = "create_table"
                    /\ ops[i].table = Get(db_to, ops[i].table.name)
                    /\ unfulfilled_fks(After(<< >>, ops, i - 1).db,
                                       ops[i].table) = << >>
              /\ NoDuplicates(ops)
              /\ { ops[i].table.name : i \in 1..Len(ops) }
                    = Creatable(Len(db_to))

\* a plan without a source returned an error for one table together with
\* the create_tables of two others, one pointing at the other
C25_Witness ==
    /\ pc = "done"
    /\ ~truthy(db_from)
    /\ result.errors_1215 # << >>
    /\ Len(result.operations) = 2
    /\ result.operations[2].table.constraints # << >>
----------------------------------------------------------------------------
(* C26 *)

\* what src_table.to( cmp_table, True ) returns
split_form == IF split THEN diff ELSE to(src_table, cmp_table, TRUE)

\* what src_table.to( cmp_table, False ) returns
flat_form == IF split THEN to(src_table, cmp_table, FALSE) ELSE diff

\* the sub-operations under a key of the split form, none when the key is absent
Group(key) ==
    IF key \in DOMAIN split_form THEN split_form[key].operations ELSE << >>

\* the kinds of the sub-operations of a sequence
Kinds(ops) == { ops[i].op : i \in 1..Len(ops) }

\* C26 (split diff partition): the split form has no key but removed_fks,
\* kitchen_sink and fks, each holding an alter_table of the source table
\* with at least one sub-operation; kitchen_sink holds column and key
\* sub-operations only, fks added and changed constraints only, removed_fks
\* dropped constraints only; kitchen_sink is present exactly when the
\* columns or the indexes of the two tables differ, fks exactly when the
\* target has a constraint the source does not have in that form,
\* removed_fks exactly when the source has a constraint name the target
\* lacks; and the list form is empty when the split form is, and else one
\* alter_table whose sub-operations are those of kitchen_sink, then fks,
\* then removed_fks.
C26_SplitPartition ==
    pc = "compared" =>
        /\ DOMAIN split_form \subseteq { "removed_fks", "kitchen_sink", "fks" }
        /\ \A key \in DOMAIN split_form :
              /\ split_form[key].op = "alter_table"
              /\ split_form[key].table = src_table.name
              /\ split_form[key].operations # << >>
        /\ Kinds(Group("kitchen_sink")) \subseteq
              { "add_column", "change_column", "remove_column",
                "add_key", "change_key", "remove_key" }
        /\ Kinds(Group("fks")) \subseteq
              { "add_constraint", "change_constraint" }
        /\ Kinds(Group("removed_fks")) \subseteq { "remove_constraint" }
        /\ "kitchen_sink" \in DOMAIN split_form <=>
              \/ Range(src_table.columns) # Range(cmp_table.columns)
              \/ Range(src_table.indexes) # Range(cmp_table.indexes)
        /\ "fks" \in DOMAIN split_form <=>
              Range(cmp_table.constraints) \ Range(src_table.constraints) # {}
        /\ "removed_fks" \in DOMAIN split_form <=>
              KeySet(src_table.constraints) \ KeySet(cmp_table.constraints) # {}
        /\ Len(flat_form) <= 1
        /\ flat_form = << >> <=> DOMAIN split_form = {}
        /\ flat_form # << >> =>
              flat_form[1] = alter_table(src_table.name,
                            Group("kitchen_sink") \o Group("fks")
                            \o Group("removed_fks"))

\* a split diff with all three keys
C26_Witness ==
    /\ pc = "compared"
    /\ split
    /\ DOMAIN diff = { "removed_fks", "kitchen_sink", "fks" }
----------------------------------------------------------------------------
(* C27 *)

\* the entries of s are pairwise distinct and follow each other as in t
InOrderOf(s, t) ==
    \A i, j \in 1..Len(s) :
        i < j => /\ s[i] # s[j]
                 /\ \E x, y \in 1..Len(t) : x < y /\ t[x] = s[i] /\ t[y] = s[j]

\* what _differences( a, b ) has to return
DifferencesLaw(a, b) ==
    LET d == differences(a, b) IN
    /\ DOMAIN d = { "added", "removed", "overlap" }
    /\ Range(d.added) = KeySet(b) \ KeySet(a)
    /\ Range(d.removed) = KeySet(a) \ KeySet(b)
    /\ Range(d.overlap) = KeySet(a) \cap KeySet(b)
    /\ InOrderOf(d.added, Keys(b))
    /\ InOrderOf(d.removed, Keys(a))
    /\ InOrderOf(d.overlap, Keys(a))
    /\ Len(d.added) + Len(d.removed) + Len(d.overlap)
          = Cardinality(KeySet(a) \cup KeySet(b))
    /\ Range(d.added) \cup Range(d.removed) \cup Range(d.overlap)
          = KeySet(a) \cup KeySet(b)

\* an alter_table `to` returned holds the sub-operation
Emitted(o) ==
    \E alter \in Alters :
        \E k \in 1..Len(alter.operations) : alter.operations[k] = o

\* C27 (set differences): for the columns, the indexes and the constraints
\* of the two tables compared, _differences returns the names only the
\* target has in the target's order, the names only the source has in the
\* source's order and the names both have in the source's order, without
\* duplicates, pairwise disjoint and together the names of both; and the
\* diff holds a change sub-operation for a name of both, carrying the
\* target's definition, exactly when the two definitions differ.
C27_Differences ==
    pc = "compared" =>
        /\ DifferencesLaw(src_table.columns, cmp_table.columns)
        /\ DifferencesLaw(src_table.indexes, cmp_table.indexes)
        /\ DifferencesLaw(src_table.constraints, cmp_table.constraints)
        /\ \A n \in KeySet(src_table.columns) \cap KeySet(cmp_table.columns) :
              Emitted(op_change_column(Get(cmp_table.columns, n)))
                <=> Get(src_table.columns, n) # Get(cmp_table.columns, n)
        /\ \A n \in KeySet(src_table.indexes) \cap KeySet(cmp_table.indexes) :
              Emitted(op_change_key(Get(cmp_table.indexes, n)))
                <=> Get(src_table.indexes, n) # Get(cmp_table.indexes, n)
        /\ \A n \in KeySet(src_table.constraints)
                     \cap KeySet(cmp_table.constraints) :
              Emitted(op_change_constraint(Get(cmp_table.constraints, n)))
                <=> Get(src_table.constraints, n)
                      # Get(cmp_table.constraints, n)
        /\ \A alter \in Alters :
              \A k \in 1..Len(alter.operations) :
                  LET o == alter.operations[k] IN
                  /\ o.op = "change_column" =>
                        Has(src_table.columns, o.column.name)
                  /\ o.op = "change_key" => Has(src_table.indexes, o.key.name)
                  /\ o.op = "change_constraint" =>
                        Has(src_table.constraints, o.constraint.name)

\* two tables compared that share three columns in different orders, one
\* of them changed
C27_Witness ==
    /\ pc = "compared"
    /\ Len(differences(src_table.columns, cmp_table.columns).overlap) = 3
    /\ Keys(src_table.columns) # Keys(cmp_table.columns)
    /\ \E n \in KeySet(src_table.columns) :
          Emitted(op_change_column(Get(cmp_table.columns, n)))
----------------------------------------------------------------------------
(* C28 *)

\* the add_column sub-operations `to` returned, in the order it emitted them
added_columns ==
    SelectSeq(IF split THEN Group("kitchen_sink") ELSE sub_operations,
              LAMBDA o : o.op = "add_column")

\* the place of the column at position i of the target table: the marker
\* FIRST or the name of the column before it
PlaceInTarget(i) ==
    IF i = 1 THEN FIRST ELSE cmp_table.columns[i - 1].name

\* C28 (AddColumn placement): `to` emits one add_column for every column
\* of the target that the source does not have and none for any other; the
\* add_column of the column at position i of the target carries that column
\* and the marker FIRST when i is 1, else the name of the target's column
\* at position i - 1; and when the add_columns are applied to the source in
\* the order emitted, every one applies, its position being FIRST or a
\* column the table holds at that moment.
C28_AddColumnPlacement ==
    pc = "compared" =>
        /\ \A i \in 1..Len(cmp_table.columns) :
              Cardinality({ k \in 1..Len(added_columns) :
                  added_columns[k].column.name = cmp_table.columns[i].name })
                = IF Has(src_table.columns, cmp_table.columns[i].name)
                  THEN 0 ELSE 1
        /\ \A k \in 1..Len(added_columns) :
              /\ \E i \in 1..Len(cmp_table.columns) :
                    added_columns[k] = op_add_column(cmp_table.columns[i],
                                                     PlaceInTarget(i))
              /\ added_columns[k].position \in { FIRST } \cup
                    KeySet(apply_all(src_table,
                               SubSeq(added_columns, 1, k - 1)).table.columns)
        /\ apply_all(src_table, added_columns).raised = ""

\* a diff with two added columns, the first placed FIRST and the second
\* after the first
C28_Witness ==
    /\ pc = "compared"
    /\ Len(added_columns) = 2
    /\ added_columns[1].position = FIRST
    /\ added_columns[2].position = added_columns[1].column.name
----------------------------------------------------------------------------
(* C29 *)

\* C29 (add_column positions): add_column of a column the table does not
\* hold, with the position END, FIRST or the name of a column of the table,
\* raises nothing and leaves the table with one column more, the new one:
\* last for END, first for FIRST, right after the named column else; the
\* other columns are those of before in their order, and the indexes and
\* constraints are untouched; for FIRST and for a named column
\* column_before of the new column then returns that position.  With the
\* name of a column the table does not hold as position, add_column raises
\* ValueError and the table is as before.
C29_AddColumnPositions ==
    (call.op = "add_column" /\ ~Has(call.before.columns, call.arg.name)) =>
        LET old == call.before.columns
            new == tbl.columns
            c   == call.arg
            p   == call.position
        IN  IF p \in { END, FIRST } \cup KeySet(old)
            THEN /\ call.raised = ""
                 /\ Len(new) = Len(old) + 1
                 /\ Pop(new, c.name) = old
                 /\ tbl = [ call.before EXCEPT !.columns = new ]
                 /\ \E i \in 1..Len(new) :
                       /\ new[i] = c
                       /\ p = END => i = Len(new)
                       /\ p = FIRST => i = 1
                       /\ p \notin { END, FIRST } =>
                             i > 1 /\ new[i - 1].name = p
                 /\ p # END =>
                       column_before(tbl, c.name)
                         = [ raised |-> "", value |-> p ]
            ELSE /\ call.raised = "ValueError"
                 /\ tbl = call.before

\* a column was added between the second and the third column of a table
C29_Witness ==
    /\ call.op = "add_column"
    /\ call.raised = ""
    /\ Len(call.before.columns) = 3
    /\ call.position = call.before.columns[2].name
    /\ tbl.columns[3] = call.arg
----------------------------------------------------------------------------
(* C30 *)

\* the tables of db_to and of the source whose errors are not empty
tables_with_errors ==
    { t.name : t \in { x \in Range(db_to) \cup Range(from_tables) :
                          x.errors # << >> } }

\* the positions of ops holding an operation on the table
OperationsOn(ops, name) ==
    Positions(ops, "create_table", name)
    \cup Positions(ops, "alter_table", name)
    \cup Positions(ops, "remove_table", name)

\* C30 as claimed (tables with parse errors are excluded): a returned plan
\* holds no create_table, alter_table or remove_table for a table of db_to
\* or db_from whose errors are not empty.
C30_ErrorTablesExcluded ==
    Returned =>
        \A n \in tables_with_errors : OperationsOn(result.operations, n) = {}

\* C30 as the code has it (parse errors do not touch the plan): in a plan
\* returned without 1215 errors, every table of db_to that the source does
\* not have gets one create_table and no other operation but alter_tables
\* adding its constraints, and every table of the source that db_to does
\* not have gets one remove_table and nothing else, whether the errors of
\* the table are empty or not; the table of a create_table carries the
\* errors db_to has for it.
C30_ErrorsDoNotExclude ==
    (Returned /\ result.errors_1215 = << >>) =>
        LET ops == result.operations IN
        /\ \A n \in KeySet(db_to) \ KeySet(from_tables) :
              /\ Cardinality(Positions(ops, "create_table", n)) = 1
              /\ Positions(ops, "remove_table", n) = {}
              /\ \A i \in Positions(ops, "create_table", n) :
                    ops[i].table.errors = Get(db_to, n).errors
        /\ \A n \in KeySet(from_tables) \ KeySet(db_to) :
              /\ Cardinality(Positions(ops, "remove_table", n)) = 1
              /\ Positions(ops, "create_table", n) = {}
              /\ Positions(ops, "alter_table", n) = {}

\* a returned plan that creates a table with parsing errors and drops
\* another one
C30_Witness ==
    /\ Returned
    /\ result.errors_1215 = << >>
    /\ \E n \in tables_with_errors :
          Positions(result.operations, "create_table", n) # {}
    /\ \E n \in tables_with_errors :
          Positions(result.operations, "remove_table", n) # {}
----------------------------------------------------------------------------
(* C31 *)

\* the table names of db_to that the schema does not hold
NewNames(from) == KeySet(db_to) \ KeySet(from)

\* the table names of the schema that db_to does not hold
GoneNames(from) == KeySet(from) \ KeySet(db_to)

\* ops holds at most one create_table per table name, each for a table of
\* db_to that the schema does not hold, and at most one remove_table per
\* table name, each for a table of the schema that db_to does not hold
TableOperationsOnce(ops, from) ==
    /\ \A i \in 1..Len(ops) :
          /\ ops[i].op = "create_table" =>
                /\ ops[i].table.name \in NewNames(from)
                /\ Positions(ops, "create_table", ops[i].table.name) = { i }
          /\ ops[i].op = "remove_table" =>
                /\ ops[i].table \in GoneNames(from)
                /\ Positions(ops, "remove_table", ops[i].table) = { i }

\* C31 (exactly-once table operations): a plan returned without 1215 errors
\* holds exactly one create_table for every table name of db_to that db_from
\* does not have, exactly one remove_table for every table name of db_from
\* that db_to does not have, and no create_table or remove_table for a name
\* both have; and at every step of a run (first add pass, second add pass,
\* cycle break, drops; the nested run included) the operations gathered so
\* far hold no table created or dropped twice and none that is not new or
\* gone.
C31_ExactlyOnce ==
    /\ pc \in { "updates", "more_adds", "cycle", "drops", "flush", "done" } =>
          TableOperationsOnce(operations, cur_from_tables)
    /\ (Returned /\ result.errors_1215 = << >>) =>
          LET ops == result.operations IN
          /\ TableOperationsOnce(ops, from_tables)
          /\ \A n \in NewNames(from_tables) :
                Cardinality(Positions(ops, "create_table", n)) = 1
          /\ \A n \in GoneNames(from_tables) :
                Cardinality(Positions(ops, "remove_table", n)) = 1
          /\ \A n \in KeySet(db_to) \cap KeySet(from_tables) :
                /\ Positions(ops, "create_table", n) = {}
                /\ Positions(ops, "remove_table", n) = {}

\* a plan returned without errors that creates a new table in the first add
\* pass, drops a table and leaves alone a table both schemas have
C31_Witness ==
    /\ Returned
    /\ result.errors_1215 = << >>
    /\ NewNames(from_tables) # {}
    /\ GoneNames(from_tables) # {}
    /\ KeySet(db_to) \cap KeySet(from_tables) # {}
    /\ \E i, j \in 1..Len(result.operations) :
          /\ result.operations[i].op = "create_table"
          /\ result.operations[j].op = "remove_table"
----------------------------------------------------------------------------
(* C32 *)

\* the last call was one of the nine mutators and it raised
FailedMutation ==
    /\ call.op \in AddCalls \cup RemoveCalls \cup ChangeCalls
    /\ call.raised # ""

\* C32 (failed mutations change nothing): when add_column, remove_column,
\* change_column, add_key, remove_key, change_key, add_constraint,
\* remove_constraint or change_constraint raises, the columns, the indexes
\* and the constraints of the table and its set of indexed columns are what
\* they were before the call.
C32_FailedCallsChangeNothing ==
    FailedMutation =>
        /\ tbl = call.before
        /\ indexed_columns = call.before_indexed
====
